---------------------------- MODULE Spec2Model ----------------------------
(***************************************************************************)
(* Model of github.com/sammy00/crypto: the Koblitz-curve engine of package *)
(* elliptic (Jacobian addition, doubling, double-and-add scalar            *)
(* multiplication) and the ECDSA layer of package ecdsa (key generation,   *)
(* the signing retry loops, verification).                                 *)
(*                                                                         *)
(* The code is generic in the curve parameters (KoblitzCurve embeds        *)
(* *CurveParams; the ECDSA layer only goes through the Curve interface).   *)
(* The model instantiates the parameters set by initP256K1 with a Koblitz  *)
(* curve of the same shape, one byte wide instead of thirty-two:           *)
(*     y^2 = x^3 + 7 over GF(163), prime order 139, cofactor 1.            *)
(* Like secp256k1 it has P = 3 (mod 4), P = 1 (mod 3), N < P < 2N, N and P *)
(* of the full bit size (8 = one whole byte, as 256 = 32 whole bytes), no  *)
(* point with x = 0, and a point with x = N (so that r = 0 can occur in    *)
(* signing).  Every intermediate value of the big.Int arithmetic stays     *)
(* below 2^31, so the arithmetic is evaluated exactly as the code does it. *)
(***************************************************************************)
EXTENDS Integers, Sequences, FiniteSets, TLC

(***************************************************************************)
(* Curve parameters (initP256K1), scaled as described above.               *)
(***************************************************************************)
P == 163
N == 139
B == 7
Gx == 7
Gy == 26
BitSize == 8

(***************************************************************************)
(* Bounds of the model.                                                    *)
(***************************************************************************)
\* longest scalar byte string handed to ScalarMult / ScalarBaseMult
MaxScalarLen == 2
\* largest value of a leading (non-final) scalar byte
MaxLeadByte == 1
\* base points of the curve-level calls: the multiples 1*G .. MaxBase*G
MaxBase == 3
\* off-curve and out-of-range coordinates tried: 0 .. MaxCoord
MaxCoord == 2
\* longest digest handed to Sign and Verify, in bytes
MaxDigestLen == 2
\* the random reader fills a block with zero bytes and a last byte in
\* 0 .. MaxRandLo
MaxRandLo == 2

MaxRandHi == 1
\* most nonce draws of one Sign call that the model follows
MaxDraws == 3
\* forged signature values tried by Verify: -1 .. MaxSig and N-1 .. N+1
MaxSig == 3

\* format tags tried by the decoders: 0 .. MaxTag, 254 and 255
MaxTag == 7
\* longest body (the bytes after the tag) of an encoding handed to a decoder
MaxBodyLen == 3

MaxCopyLen == 3

\* longest digest handed to hashToInt alone
MaxHashLen == 3

\* Jacobian representations tried for a point: z in 1 .. MaxZ
MaxZ == 3

\* most passes of elliptic.GenerateKey's loop that the model follows
MaxReads == 2

Byte == 0..255

(***************************************************************************)
(* math/big helpers.  big.Int.Mod is the Euclidean modulus, which for a    *)
(* positive modulus is TLA+'s %.                                           *)
(***************************************************************************)
\* the result of dereferencing a nil *big.Int: the call panics
Panic == <<>>

Sign0(x) == IF x < 0 THEN -1 ELSE IF x = 0 THEN 0 ELSE 1

\* big.Int.ModInverse(g, n) returns nil when g has no inverse modulo n
HasInverse(g, n) == \E i \in 0..(n - 1) : (g * i) % n = 1 % n

ModInverse(g, n) == CHOOSE i \in 0..(n - 1) : (g * i) % n = 1 % n

\* big.Int.SetBytes: the big-endian value of a byte string
RECURSIVE SetBytes(_)
SetBytes(b) ==
    IF Len(b) = 0 THEN 0
    ELSE 256 * SetBytes(SubSeq(b, 1, Len(b) - 1)) + b[Len(b)]

\* big.Int.Bytes: the minimal big-endian byte string of |x| (empty for 0)
RECURSIVE Bytes(_)
Bytes(x) ==
    IF x = 0 THEN <<>>
    ELSE Append(Bytes(x \div 256), x % 256)

(***************************************************************************)
(* package elliptic, koblitz.go                                            *)
(***************************************************************************)
zForAffineAlwaysOne(x, y) == 1

zForAffine(x, y) ==
    IF (0 # Sign0(x)) \/ (0 # Sign0(y)) THEN 1 ELSE 0

affineFromJacobianNoInfinity(x, y, z) ==
    IF ~HasInverse(z, P) THEN Panic
    ELSE LET zInv  == ModInverse(z, P)
             zInv2 == zInv * zInv
             zInv3 == zInv2 * zInv
         IN  << (x * zInv2) % P, (y * zInv3) % P >>

affineFromJacobian(x, y, z) ==
    IF 0 = Sign0(z) THEN << 0, 0 >>
    ELSE IF ~HasInverse(z, P) THEN Panic
    ELSE LET zInv  == ModInverse(z, P)
             zInv2 == zInv * zInv
             zInv3 == zInv2 * zInv
         IN  << (x * zInv2) % P, (y * zInv3) % P >>

\* doubleJacobian with zOut = 2 * z instead of 2 * y * z
doubleJacobianZWithoutY(x, y, z) ==
    LET A  == (x * x) % P
        BB == (y * y) % P
        CC == (BB * BB) % P
        D0 == 2 * ((x + BB) * (x + BB) - A - CC)
        D  == (IF -1 = Sign0(D0) THEN D0 + P ELSE D0) % P
        E  == (2 * A + A) % P
        F  == (E * E) % P
        xOut == (F - D - D) % P
    IN  << xOut, (E * (D - xOut) - 8 * CC) % P, (2 * z) % P >>

doubleJacobian(x, y, z) ==
    LET A  == (x * x) % P
        BB == (y * y) % P
        CC == (BB * BB) % P
        D0 == 2 * ((x + BB) * (x + BB) - A - CC)
        D  == (IF -1 = Sign0(D0) THEN D0 + P ELSE D0) % P
        E  == (2 * A + A) % P
        F  == (E * E) % P
        xOut == (F - D - D) % P
        yOut == (E * (D - xOut) - 8 * CC) % P
        zOut == (2 * (y * z)) % P
    IN  << xOut, yOut, zOut >>

\* addJacobian with the doubling formula for equal operands
addJacobianWithDoubling(x1, y1, z1, x2, y2, z2) ==
    IF 0 = Sign0(z1) THEN << x2, y2, z2 >>
    ELSE IF 0 = Sign0(z2) THEN << x1, y1, z1 >>
    ELSE IF (x1 * z2 * z2 - x2 * z1 * z1) % P = 0
            /\ (y1 * z2 * z2 * z2 - y2 * z1 * z1 * z1) % P = 0
    THEN doubleJacobian(x1, y1, z1)
    ELSE
    LET z12 == (z1 * z1) % P
        z22 == (z2 * z2) % P
        u1  == (x1 * z22) % P
        u2  == (x2 * z12) % P
        s1  == (y1 * z22 * z2) % P
        s2  == (y2 * z12 * z1) % P
        h0  == u2 - u1
        h   == IF -1 = Sign0(h0) THEN h0 + P ELSE h0
        i   == ((2 * h) * (2 * h)) % P
        j   == (h * i) % P
        r0  == s2 - s1
        r   == 2 * (IF -1 = Sign0(r0) THEN r0 + P ELSE r0)
        v   == u1 * i
    IN  << (r * r - j - v - v) % P,
           (r * (v - ((r * r - j - v - v) % P)) - 2 * (s1 * j)) % P,
           (((z1 + z2) * (z1 + z2) - z12 - z22) * h) % P >>

addJacobian(x1, y1, z1, x2, y2, z2) ==
    IF 0 = Sign0(z1) THEN << x2, y2, z2 >>
    ELSE IF 0 = Sign0(z2) THEN << x1, y1, z1 >>
    ELSE
    LET z12 == (z1 * z1) % P
        z22 == (z2 * z2) % P
        u1  == (x1 * z22) % P
        u2  == (x2 * z12) % P
        s1  == (y1 * z22 * z2) % P
        s2  == (y2 * z12 * z1) % P
        h0  == u2 - u1
        h   == IF -1 = Sign0(h0) THEN h0 + P ELSE h0
        i   == ((2 * h) * (2 * h)) % P
        j   == (h * i) % P
        r0  == s2 - s1
        r   == 2 * (IF -1 = Sign0(r0) THEN r0 + P ELSE r0)
        v   == u1 * i
        x   == (r * r - j - v - v) % P
        y   == (r * (v - x) - 2 * (s1 * j)) % P
        z   == (((z1 + z2) * (z1 + z2) - z12 - z22) * h) % P
    IN  << x, y, z >>

\* affineFromJacobian applied to the triple j that addJacobian,
\* doubleJacobian or ScalarMult's loop returned
affineOf(j) == affineFromJacobian(j[1], j[2], j[3])

\* Add taking both z values from the first operand
AddFirstOperandZ(x1, y1, x2, y2) ==
    affineOf(addJacobian(x1, y1, zForAffine(x1, y1), x2, y2, zForAffine(x1, y1)))

Add(x1, y1, x2, y2) ==
    affineOf(addJacobian(x1, y1, zForAffine(x1, y1), x2, y2, zForAffine(x2, y2)))

DoubleViaAdd(x, y) == Add(x, y, x, y)

Double(x, y) == affineOf(doubleJacobian(x, y, zForAffine(x, y)))

IsOnCurve(x, y) ==
    LET y2  == (y * y) % P
        rhs == (x * x * x + B) % P
    IN  rhs = y2

\* ScalarMult, lines 121-123: the conditional add of the base to the
\* doubled accumulator d = (xx, yy, zz), on the top bit of b
scalarMultAdd(x1, y1, d, b) ==
    IF b >= 128 THEN addJacobian(x1, y1, 1, d[1], d[2], d[3]) ELSE d

\* the eight steps of ScalarMult's inner loop for one byte b: acc is
\* (xx, yy, zz), i the loop counter; b <<= 1 wraps in a byte.  Each
\* iteration's accumulator a is computed before the next iteration starts.
RECURSIVE scalarMultBits(_, _, _, _, _)
scalarMultBits(x1, y1, acc, b, i) ==
    IF i >= 8 THEN acc
    ELSE CHOOSE out \in
             { scalarMultBits(x1, y1, a, (2 * b) % 256, i + 1) :
                 a \in { scalarMultAdd(x1, y1,
                             doubleJacobian(acc[1], acc[2], acc[3]), b) } } : TRUE

\* ScalarMult's outer loop over the bytes of k from index n on
RECURSIVE scalarMultBytes(_, _, _, _, _)
scalarMultBytes(x1, y1, acc, k, n) ==
    IF n > Len(k) THEN acc
    ELSE CHOOSE out \in
             { scalarMultBytes(x1, y1, a, k, n + 1) :
                 a \in { scalarMultBits(x1, y1, acc, k[n], 0) } } : TRUE

ScalarMultFromBase(x1, y1, k) ==
    affineOf(scalarMultBytes(x1, y1, << x1, y1, 1 >>, k, 1))

ScalarMult(x1, y1, k) ==
    affineOf(scalarMultBytes(x1, y1, << 0, 0, 0 >>, k, 1))

ScalarBaseMult(k) == ScalarMult(Gx, Gy, k)

\* ScalarMult's loops again, collecting in seen every accumulator
\* (xx, yy, zz) that line 122 hands to addJacobian beside the base
RECURSIVE scalarMultOperandsBits(_, _, _, _, _, _)
scalarMultOperandsBits(x1, y1, acc, b, i, seen) ==
    IF i >= 8 THEN [acc |-> acc, seen |-> seen]
    ELSE CHOOSE out \in
             { scalarMultOperandsBits(x1, y1, a[1], (2 * b) % 256, i + 1, a[2]) :
                 a \in { << scalarMultAdd(x1, y1, d, b),
                            IF b >= 128 THEN seen \cup { d } ELSE seen >> :
                            d \in { doubleJacobian(acc[1], acc[2], acc[3]) } } } : TRUE

RECURSIVE scalarMultOperandsBytes(_, _, _, _, _)
scalarMultOperandsBytes(x1, y1, st, k, n) ==
    IF n > Len(k) THEN st.seen
    ELSE CHOOSE out \in
             { scalarMultOperandsBytes(x1, y1, a, k, n + 1) :
                 a \in { scalarMultOperandsBits(x1, y1, st.acc, k[n], 0, st.seen) } } : TRUE

scalarMultOperands(x1, y1, k) ==
    scalarMultOperandsBytes(x1, y1, [acc |-> << 0, 0, 0 >>, seen |-> {}], k, 1)

(***************************************************************************)
(* Reference group law of y^2 = x^3 + B over GF(P), in affine coordinates  *)
(* with (0,0) for the point at infinity: what the claims compare the code  *)
(* against.                                                                *)
(***************************************************************************)
Inf == << 0, 0 >>

RefInv(a) == CHOOSE i \in 1..(P - 1) : (a * i) % P = 1

RefAdd(p1, p2) ==
    IF p1 = Inf THEN p2
    ELSE IF p2 = Inf THEN p1
    ELSE IF p1[1] = p2[1] /\ (p1[2] + p2[2]) % P = 0 THEN Inf
    ELSE LET l == IF p1 = p2
                  THEN (3 * p1[1] * p1[1] * RefInv((2 * p1[2]) % P)) % P
                  ELSE ((p2[2] - p1[2]) * RefInv((p2[1] - p1[1]) % P)) % P
             x == (l * l - p1[1] - p2[1]) % P
         IN  << x, (l * (p1[1] - x) - p1[2]) % P >>

\* k * G = 2 * ((k \div 2) * G) + (k % 2) * G, by the reference addition
RECURSIVE RefMulG(_)
RefMulG(k) ==
    IF k = 0 THEN Inf
    ELSE CHOOSE out \in
             { IF k % 2 = 1 THEN RefAdd(RefAdd(h, h), << Gx, Gy >>)
                            ELSE RefAdd(h, h) :
                 h \in { RefMulG(k \div 2) } } : TRUE

\* the multiples 0*G, 1*G, ..., (N-1)*G of the generator

GTable == [k \in 0..(N - 1) |-> RefMulG(k)]

\* the discrete logarithm of an on-curve point (the group is cyclic of
\* prime order N, generated by G)
LogG(p) == CHOOSE k \in 0..(N - 1) : GTable[k] = p

\* k * p for an on-curve point p and any integer k >= 0
RefMul(k, p) == GTable[(k * LogG(p)) % N]

(***************************************************************************)
(* package ecdsa                                                           *)
(***************************************************************************)
\* a nil *big.Int / nil slice, and a non-nil *big.Int holding v
Nil == <<>>

Ptr(v) == << v >>

\* big.Int.BitLen
RECURSIVE BitLen(_)
BitLen(x) == IF x = 0 THEN 0 ELSE 1 + BitLen(x \div 2)

RECURSIVE Pow2(_)
Pow2(n) == IF n = 0 THEN 1 ELSE 2 * Pow2(n - 1)

\* big.Int.Exp(x, y, m) for y >= 0, m > 0, by repeated squaring
RECURSIVE ModExp(_, _, _)
ModExp(x, y, m) ==
    IF y = 0 THEN 1 % m
    ELSE LET h == ModExp(x, y \div 2, m)
             q == (h * h) % m
         IN  IF y % 2 = 1 THEN (q * (x % m)) % m ELSE q

fermatInverse(k, n) == ModExp(k, n - 2, n)

hashToIntShiftOffByOne(hash) ==
    LET orderBits  == BitLen(N)
        orderBytes == (orderBits + 7) \div 8
        h == IF Len(hash) > orderBytes THEN SubSeq(hash, 1, orderBytes) ELSE hash
        ret    == SetBytes(h)
        excess == Len(h) * 8 - (orderBits - 1)
    IN  IF excess > 0 THEN ret \div Pow2(excess) ELSE ret

hashToInt(hash) ==
    LET orderBits  == BitLen(N)
        orderBytes == (orderBits + 7) \div 8
        h == IF Len(hash) > orderBytes THEN SubSeq(hash, 1, orderBytes) ELSE hash
        ret    == SetBytes(h)
        excess == Len(h) * 8 - orderBits
    IN  IF excess > 0 THEN ret \div Pow2(excess) ELSE ret

\* the outcome of io.ReadFull(rand, b): b filled and a nil error, or an error
ReadOk(b) == [err |-> "nil", b |-> b]

ReadErr(e) == [err |-> e, b |-> Nil]

\* randFieldElement reducing modulo N instead of N - 1
randFieldElementModN(rd) ==
    IF rd.err # "nil" THEN [k |-> Nil, err |-> rd.err]
    ELSE [k |-> Ptr((SetBytes(rd.b) % N) + 1), err |-> "nil"]

\* randFieldElement on ReadFull's outcome rd: (k, err)
randFieldElement(rd) ==
    IF rd.err # "nil" THEN [k |-> Nil, err |-> rd.err]
    ELSE LET k0 == SetBytes(rd.b)
             n  == N - 1
         IN  [k |-> Ptr((k0 % n) + 1), err |-> "nil"]

\* ecdsa.GenerateKey on ReadFull's outcome rd: (priv, err)
\* GenerateKey, lines 68-74: the key of private scalar k and public point pt
newPrivateKey(k, pt) == [priv |-> [D |-> k, X |-> pt[1], Y |-> pt[2]], err |-> "nil"]

GenerateKey(rd) ==
    LET ke == randFieldElement(rd)
    IN  IF ke.err # "nil" THEN [priv |-> Nil, err |-> ke.err]
        ELSE newPrivateKey(ke.k[1], ScalarBaseMult(Bytes(ke.k[1])))

\* Verify, line 148: c.Add on what the two scalar multiplications returned
verifyAdd(p1, p2) ==
    IF p1 = Panic \/ p2 = Panic THEN Panic
    ELSE Add(p1[1], p1[2], p2[1], p2[2])

\* Verify, lines 134-148: the point x, y that is compared with r
VerifyPoint(pub, hash, r, s) ==
    LET e  == hashToInt(hash)
        w  == ModInverse(s, N)
        u1 == (e * w) % N
        u2 == (r * w) % N
    IN  verifyAdd(ScalarBaseMult(Bytes(u1)), ScalarMult(pub[1], pub[2], Bytes(u2)))

\* the calls Verify makes after its range check, in order
VerifyCalls ==
    << "hashToInt", "ModInverse", "ScalarBaseMult", "ScalarMult", "Add" >>

\* Verify, lines 149-154: the comparison of the point pt with r
verifyCompare(pt, r) ==
    IF pt = Panic
    THEN [ret |-> FALSE, panic |-> TRUE, calls |-> VerifyCalls]
    ELSE IF pt[1] = 0 /\ pt[2] = 0
    THEN [ret |-> FALSE, panic |-> FALSE, calls |-> VerifyCalls]
    ELSE [ret |-> (pt[1] % N) = r, panic |-> FALSE, calls |-> VerifyCalls]

VerifyRangeOffByOne(pub, hash, r, s) ==
    IF (Sign0(r) <= 0) \/ (Sign0(s) <= 0)
    THEN [ret |-> FALSE, panic |-> FALSE, calls |-> <<>>]
    ELSE IF (r > N) \/ (s > N)
    THEN [ret |-> FALSE, panic |-> FALSE, calls |-> <<>>]
    ELSE IF ~HasInverse(s, N)
    THEN [ret |-> FALSE, panic |-> TRUE, calls |-> SubSeq(VerifyCalls, 1, 2)]
    ELSE verifyCompare(VerifyPoint(pub, hash, r, s), r)

\* Verify: ret is the returned boolean, panic whether the call panicked
\* instead of returning (a nil *big.Int dereferenced: ModInverse returns
\* nil when there is no inverse), calls the calls made
Verify(pub, hash, r, s) ==
    IF (Sign0(r) <= 0) \/ (Sign0(s) <= 0)
    THEN [ret |-> FALSE, panic |-> FALSE, calls |-> <<>>]
    ELSE IF (r >= N) \/ (s >= N)
    THEN [ret |-> FALSE, panic |-> FALSE, calls |-> <<>>]
    ELSE IF ~HasInverse(s, N)
    THEN [ret |-> FALSE, panic |-> TRUE, calls |-> SubSeq(VerifyCalls, 1, 2)]
    ELSE verifyCompare(VerifyPoint(pub, hash, r, s), r)

\* encoding/asn1: the DER INTEGER contents of v >= 0 (minimal two's
\* complement) and the SEQUENCE { r INTEGER, s INTEGER } of two values
\* below 2^7 bytes long
asn1Int(v) ==
    LET b == Bytes(v)
        c == IF Len(b) = 0 THEN << 0 >>
             ELSE IF b[1] >= 128 THEN << 0 >> \o b ELSE b
    IN  << 2, Len(c) >> \o c

asn1Marshal(r, s) ==
    LET body == asn1Int(r) \o asn1Int(s)
    IN  << 48, Len(body) >> \o body

\* PrivateKey.Sign on what Sign returned
PrivateKeySign(r, s, err) ==
    IF "nil" # err THEN [sig |-> Nil, err |-> err]
    ELSE [sig |-> asn1Marshal(r[1], s[1]), err |-> "nil"]

\* Sign, lines 104-114, with r # 0: s is computed and the outer loop left
\* when s # 0
signS(loc, D, hash, kInv, r) ==
    LET e == hashToInt(hash)
        s == (((D * r) + e) * kInv) % N
    IN  [loc EXCEPT !.r = Ptr(r), !.s = Ptr(s), !.done = (0 # Sign0(s))]

signRNoRetry(loc, D, hash, kInv, r) == signS(loc, D, hash, kInv, r)

\* Sign, lines 98-101: r is reduced and the inner loop left when r # 0
signR(loc, D, hash, kInv, r) ==
    IF 0 = Sign0(r) THEN [loc EXCEPT !.r = Ptr(r)]
    ELSE signS(loc, D, hash, kInv, r)

\* Sign, line 97 on: pt is what ScalarBaseMult(k.Bytes()) returned
signPoint(loc, D, hash, kInv, pt) ==
    IF pt = Panic THEN [loc EXCEPT !.err = "panic", !.done = TRUE]
    ELSE signR(loc, D, hash, kInv, pt[1] % N)

\* Sign, lines 96-97, with the nonce k
signNonce(loc, D, hash, k) ==
    signPoint([loc EXCEPT !.k = Ptr(k), !.kInv = Ptr(fermatInverse(k, N))],
              D, hash, fermatInverse(k, N), ScalarBaseMult(Bytes(k)))

SignPassKeepsS(loc, D, hash, rd) ==
    LET ke == randFieldElement(rd)
    IN  IF "nil" # ke.err
        THEN [loc EXCEPT !.k = Nil, !.r = Nil, !.err = ke.err, !.done = TRUE]
        ELSE signNonce(loc, D, hash, ke.k[1])

\* one pass of Sign's loops (lines 88-114) on ReadFull's outcome rd, from
\* the locals and named results loc = [k, kInv, r, s, err]: their new
\* values, and whether Sign returned (done) or goes round again
SignPass(loc, D, hash, rd) ==
    LET ke == randFieldElement(rd)
    IN  IF "nil" # ke.err
        THEN [loc EXCEPT !.k = Nil, !.r = Nil, !.s = Nil, !.err = ke.err,
                         !.done = TRUE]
        ELSE signNonce(loc, D, hash, ke.k[1])

(***************************************************************************)
(* Public-key encodings (package ecdsa) and point marshalling (package     *)
(* elliptic).  The encoded lengths are scaled with the coordinate width:   *)
(* one tag byte and one or two coordinates of BitSize/8 bytes.             *)
(***************************************************************************)
PublicKeyCompressedLen == 2
PublicKeyUncompressedLen == 3
pubKeyCompressed == 2
pubKeyUncompressed == 4

ErrLength == "Invalid data length"
ErrTag == "Invalid format tag"
ErrOddness == "oddness of y is wrong"
ErrOffCurve == "The parsed point is off curve"

\* b & 0xfe and b & 0x01 on a byte
AndFE(b) == b - (b % 2)

And01(b) == b % 2

Zeros(n) == [i \in 1..n |-> 0]

\* big.Int.Bit(0) = 1, on a non-nil value
isOdd(n) == 1 = n % 2

\* big.Int.ModSqrt(x, p) for a prime p = 3 (mod 4): nil when x is not a
\* square mod p (Jacobi symbol -1), 0 when x = 0 mod p, else x^((p+1)/4)
ModSqrt(x, p) ==
    IF x % p = 0 THEN Ptr(0)
    ELSE IF ModExp(x, (p - 1) \div 2, p) # 1 THEN Nil
    ELSE Ptr(ModExp(x, (p + 1) \div 4, p))

decompressParityNoNegate(y0, yOdd) ==
    IF isOdd(y0) # yOdd
    THEN [y |-> Nil, err |-> ErrOddness, panic |-> FALSE]
    ELSE [y |-> Ptr(y0), err |-> "nil", panic |-> FALSE]

\* DecompressPoint, lines 86-95, on the non-nil root y0
decompressParity(y0, yOdd) ==
    LET y1 == IF isOdd(y0) # yOdd THEN P - y0 ELSE y0
    IN  IF isOdd(y1) # yOdd
        THEN [y |-> Nil, err |-> ErrOddness, panic |-> FALSE]
        ELSE [y |-> Ptr(y1), err |-> "nil", panic |-> FALSE]

\* DecompressPoint, lines 84-86, on what ModSqrt returned: isOdd calls
\* Bit(0) on it, which dereferences a nil *big.Int
decompressRoot(y, yOdd) ==
    IF y = Nil THEN [y |-> Nil, err |-> "nil", panic |-> TRUE]
    ELSE decompressParity(y[1], yOdd)

\* ecdsa.DecompressPoint: (y, err), or a panic
DecompressPoint(x, yOdd) ==
    decompressRoot(ModSqrt((x * x * x + B) % P, P), yOdd)

\* KoblitzCurve.DecompressPoint: (y, err), or a panic
curveDecompressPoint(x, yOdd) ==
    decompressRoot(ModSqrt((x * x * x + B) % P, P), yOdd)

\* ReverseCopy copying to the start of dst
ReverseCopyLeftAligned(dst, src) ==
    [i \in 1..Len(dst) |-> IF i <= Len(src) THEN src[i] ELSE dst[i]]

\* ReverseCopy(dst, src): dst afterwards
ReverseCopy(dst, src) ==
    LET offset == Len(dst) - Len(src)
    IN  IF offset >= 0
        THEN [i \in 1..Len(dst) |-> IF i > offset THEN src[i - offset] ELSE dst[i]]
        ELSE [i \in 1..Len(dst) |-> src[i - offset]]

CompressEvenTag(X, Y) ==
    << pubKeyCompressed >> \o ReverseCopy(Zeros(PublicKeyCompressedLen - 1), Bytes(X))

\* PublicKey.Compress of the key (X, Y)
Compress(X, Y) ==
    << IF isOdd(Y) THEN pubKeyCompressed + 1 ELSE pubKeyCompressed >>
        \o ReverseCopy(Zeros(PublicKeyCompressedLen - 1), Bytes(X))

\* PublicKey.UncompressedEncode of the key (X, Y)
UncompressedEncode(X, Y) ==
    LET ell == (PublicKeyUncompressedLen - 1) \div 2
    IN  << pubKeyUncompressed >> \o ReverseCopy(Zeros(ell), Bytes(X))
                                 \o ReverseCopy(Zeros(ell), Bytes(Y))

\* a PublicKey receiver: its X and Y, the error returned, whether the call
\* panicked
PubOut(X, Y, err) == [X |-> X, Y |-> Y, err |-> err, panic |-> FALSE]

\* Decompress, lines 41-45: the receiver after DecompressPoint returned d
decompressStore(X, d) == [X |-> Ptr(X), Y |-> d.y, err |-> d.err, panic |-> d.panic]

\* PublicKey.Decompress on the receiver pub
Decompress(pub, data) ==
    IF Len(data) # PublicKeyCompressedLen THEN PubOut(pub.X, pub.Y, ErrLength)
    ELSE IF AndFE(data[1]) # pubKeyCompressed THEN PubOut(pub.X, pub.Y, ErrTag)
    ELSE decompressStore(SetBytes(SubSeq(data, 2, Len(data))),
                         DecompressPoint(SetBytes(SubSeq(data, 2, Len(data))),
                                         And01(data[1]) = 1))

\* PublicKey.UncompressedDecode on the receiver pub
UncompressedDecode(pub, data) ==
    IF Len(data) # PublicKeyUncompressedLen THEN PubOut(pub.X, pub.Y, ErrLength)
    ELSE IF pubKeyUncompressed # AndFE(data[1]) THEN PubOut(pub.X, pub.Y, ErrTag)
    ELSE LET ell == (PublicKeyUncompressedLen - 1) \div 2
         IN  PubOut(Ptr(SetBytes(SubSeq(data, 2, 1 + ell))),
                    Ptr(SetBytes(SubSeq(data, 2 + ell, Len(data)))), "nil")

parseNoCurveCheck(d) == d

\* Parse, lines 97-103, on the receiver and error d left by the decoder
parseOnCurve(d) ==
    IF d.panic \/ d.err # "nil" THEN d
    ELSE IF ~IsOnCurve(d.X[1], d.Y[1]) THEN [d EXCEPT !.err = ErrOffCurve]
    ELSE d

\* Parse, lines 88-95: the decoder chosen by the tag
parseDecode(pub, data) ==
    IF AndFE(data[1]) = pubKeyCompressed THEN Decompress(pub, data)
    ELSE IF AndFE(data[1]) = pubKeyUncompressed THEN UncompressedDecode(pub, data)
    ELSE PubOut(pub.X, pub.Y, ErrTag)

\* PublicKey.Parse on the receiver pub
Parse(pub, data) ==
    IF Len(data) < PublicKeyCompressedLen THEN PubOut(pub.X, pub.Y, ErrLength)
    ELSE parseOnCurve(parseDecode(pub, data))

\* a fresh PublicKey
NewPub == [X |-> Nil, Y |-> Nil]

\* copy(ret[from:], b) into the byte slice ret (from counted from 0)
CopyAt(ret, from, b) ==
    [i \in 1..Len(ret) |->
        IF i > from /\ i - from <= Len(b) THEN b[i - from] ELSE ret[i]]

\* elliptic.Marshal: the encoding, or Panic when a coordinate is longer
\* than byteLen (a negative slice index)
Marshal(x, y) ==
    LET byteLen == (BitSize + 7) \div 8
    IN  IF Len(Bytes(x)) > byteLen \/ Len(Bytes(y)) > byteLen THEN Panic
        ELSE CopyAt(CopyAt([i \in 1..(1 + 2 * byteLen) |-> IF i = 1 THEN 4 ELSE 0],
                           1 + byteLen - Len(Bytes(x)), Bytes(x)),
                    1 + 2 * byteLen - Len(Bytes(y)), Bytes(y))

unmarshalCheckNoCurve(x, y) ==
    IF x >= P \/ y >= P THEN [x |-> Nil, y |-> Nil]
    ELSE [x |-> Ptr(x), y |-> Ptr(y)]

\* Unmarshal, lines 98-108, on the decoded x and y
unmarshalCheck(x, y) ==
    IF x >= P \/ y >= P THEN [x |-> Nil, y |-> Nil]
    ELSE IF ~IsOnCurve(x, y) THEN [x |-> Nil, y |-> Nil]
    ELSE [x |-> Ptr(x), y |-> Ptr(y)]

\* elliptic.Unmarshal: (x, y)
Unmarshal(data) ==
    LET byteLen == (BitSize + 7) \div 8
    IN  IF Len(data) # 1 + 2 * byteLen THEN [x |-> Nil, y |-> Nil]
        ELSE IF data[1] # 4 THEN [x |-> Nil, y |-> Nil]
        ELSE unmarshalCheck(SetBytes(SubSeq(data, 2, 1 + byteLen)),
                            SetBytes(SubSeq(data, 2 + byteLen, Len(data))))

(***************************************************************************)
(* package elliptic, curve.go: GenerateKey.  Its scalar has                *)
(* byteLen = ceil(N.BitLen()/8) bytes and the code writes priv[1], so it   *)
(* needs a curve whose order takes two bytes.  KoblitzP349 is such a       *)
(* KoblitzCurve, y^2 = x^3 + 7 over GF(349), of prime order 313 (9 bits:   *)
(* the mask applied to priv[0] is mask[1]; on secp256k1 it is mask[0]).    *)
(* The methods GenerateKey reaches are given with their receiver explicit. *)
(***************************************************************************)
KoblitzP349 ==
    [P |-> 349, N |-> 313, B |-> 7, Gx |-> 2, Gy |-> 109, BitSize |-> 9]

\* (curve *KoblitzCurve).affineFromJacobian.  zInv^3 is reduced before the
\* last product, which leaves yOut the same and keeps the product small.
curveAffineFromJacobian(curve, x, y, z) ==
    IF 0 = Sign0(z) THEN << 0, 0 >>
    ELSE IF ~HasInverse(z, curve.P) THEN Panic
    ELSE LET zInv  == ModInverse(z, curve.P)
             zInv2 == zInv * zInv
             zInv3 == (zInv2 * zInv) % curve.P
         IN  << (x * zInv2) % curve.P, (y * zInv3) % curve.P >>

\* (curve *KoblitzCurve).doubleJacobian
curveDoubleJacobian(curve, x, y, z) ==
    LET A  == (x * x) % curve.P
        BB == (y * y) % curve.P
        CC == (BB * BB) % curve.P
        D0 == 2 * ((x + BB) * (x + BB) - A - CC)
        D  == (IF -1 = Sign0(D0) THEN D0 + curve.P ELSE D0) % curve.P
        E  == (2 * A + A) % curve.P
        F  == (E * E) % curve.P
        xOut == (F - D - D) % curve.P
        yOut == (E * (D - xOut) - 8 * CC) % curve.P
        zOut == (2 * (y * z)) % curve.P
    IN  << xOut, yOut, zOut >>

\* (curve *KoblitzCurve).addJacobian
curveAddJacobian(curve, x1, y1, z1, x2, y2, z2) ==
    IF 0 = Sign0(z1) THEN << x2, y2, z2 >>
    ELSE IF 0 = Sign0(z2) THEN << x1, y1, z1 >>
    ELSE
    LET z12 == (z1 * z1) % curve.P
        z22 == (z2 * z2) % curve.P
        u1  == (x1 * z22) % curve.P
        u2  == (x2 * z12) % curve.P
        s1  == (y1 * z22 * z2) % curve.P
        s2  == (y2 * z12 * z1) % curve.P
        h0  == u2 - u1
        h   == IF -1 = Sign0(h0) THEN h0 + curve.P ELSE h0
        i   == ((2 * h) * (2 * h)) % curve.P
        j   == (h * i) % curve.P
        r0  == s2 - s1
        r   == 2 * (IF -1 = Sign0(r0) THEN r0 + curve.P ELSE r0)
        v   == u1 * i
        x   == (r * r - j - v - v) % curve.P
        y   == (r * (v - x) - 2 * (s1 * j)) % curve.P
        z   == (((z1 + z2) * (z1 + z2) - z12 - z22) * h) % curve.P
    IN  << x, y, z >>

\* ScalarMult's conditional add, as scalarMultAdd
curveScalarMultAdd(curve, x1, y1, d, b) ==
    IF b >= 128 THEN curveAddJacobian(curve, x1, y1, 1, d[1], d[2], d[3]) ELSE d

\* ScalarMult's inner loop, as scalarMultBits
RECURSIVE curveScalarMultBits(_, _, _, _, _, _)
curveScalarMultBits(curve, x1, y1, acc, b, i) ==
    IF i >= 8 THEN acc
    ELSE CHOOSE out \in
             { curveScalarMultBits(curve, x1, y1, a, (2 * b) % 256, i + 1) :
                 a \in { curveScalarMultAdd(curve, x1, y1,
                             curveDoubleJacobian(curve, acc[1], acc[2], acc[3]),
                             b) } } : TRUE

\* ScalarMult's outer loop, as scalarMultBytes
RECURSIVE curveScalarMultBytes(_, _, _, _, _, _)
curveScalarMultBytes(curve, x1, y1, acc, k, n) ==
    IF n > Len(k) THEN acc
    ELSE CHOOSE out \in
             { curveScalarMultBytes(curve, x1, y1, a, k, n + 1) :
                 a \in { curveScalarMultBits(curve, x1, y1, acc, k[n], 0) } } : TRUE

\* the affine point of the Jacobian triple j that ScalarMult's loop left
curveScalarMultAffine(curve, j) == curveAffineFromJacobian(curve, j[1], j[2], j[3])

\* (curve *KoblitzCurve).ScalarMult
curveScalarMult(curve, x1, y1, k) ==
    curveScalarMultAffine(curve,
        curveScalarMultBytes(curve, x1, y1, << 0, 0, 0 >>, k, 1))

\* (curve *KoblitzCurve).ScalarBaseMult
curveScalarBaseMult(curve, k) == curveScalarMult(curve, curve.Gx, curve.Gy, k)

\* var mask = []byte{0xff, 0x1, 0x3, 0x7, 0xf, 0x1f, 0x3f, 0x7f}
mask == << 255, 1, 3, 7, 15, 31, 63, 127 >>

\* a & b and a ^ b on bytes
RECURSIVE BitAnd(_, _)
BitAnd(a, b) ==
    IF a = 0 \/ b = 0 THEN 0
    ELSE 2 * BitAnd(a \div 2, b \div 2) + (IF a % 2 = 1 /\ b % 2 = 1 THEN 1 ELSE 0)

RECURSIVE BitXor(_, _)
BitXor(a, b) ==
    IF a = 0 THEN b
    ELSE IF b = 0 THEN a
    ELSE 2 * BitXor(a \div 2, b \div 2) + (IF a % 2 # b % 2 THEN 1 ELSE 0)

\* GenerateKey, line 48: byteLen := (bitSize + 7) >> 3
byteLen(curve) == (BitLen(curve.N) + 7) \div 8

\* io.ReadFull(rand, priv) that read the bytes b: priv afterwards
readInto(priv, b) == [i \in 1..Len(priv) |-> IF i <= Len(b) THEN b[i] ELSE priv[i]]

\* GenerateKey's XOR of priv[1] left out
generateKeyMaskNoXor(curve, priv) ==
    [priv EXCEPT ![1] = BitAnd(@, mask[(BitLen(curve.N) % 8) + 1])]

\* GenerateKey, lines 58-61: priv[0] &= mask[bitSize%8]; priv[1] ^= 0x42
generateKeyMask(curve, priv) ==
    [priv EXCEPT ![1] = BitAnd(@, mask[(BitLen(curve.N) % 8) + 1]),
                 ![2] = BitXor(@, 66)]

\* GenerateKey, lines 64-68 on the masked priv: the locals after the pass
generateKeyPoint(curve, priv) ==
    IF SetBytes(priv) >= curve.N
    THEN [priv |-> priv, x |-> Nil, y |-> Nil, err |-> "nil"]
    ELSE LET pt == curveScalarBaseMult(curve, priv)
         IN  [priv |-> priv, x |-> Ptr(pt[1]), y |-> Ptr(pt[2]), err |-> "nil"]

\* one pass of GenerateKey's loop on the outcome o of io.ReadFull: the
\* named results priv, x, y, err after it
generateKeyPass(curve, priv, o) ==
    IF o.err # "nil"
    THEN [priv |-> readInto(priv, o.b), x |-> Nil, y |-> Nil, err |-> o.err]
    ELSE generateKeyPoint(curve, generateKeyMask(curve, readInto(priv, o.b)))

\* the model's curve of one-byte order as a value, beside KoblitzP349
KoblitzP163 ==
    [P |-> P, N |-> N, B |-> B, Gx |-> Gx, Gy |-> Gy, BitSize |-> BitSize]

\* hashToInt without the right shift of the excess bits
hashToIntNoShift(h, c) ==
    LET orderBytes == (BitLen(c.N) + 7) \div 8
    IN  SetBytes(IF Len(h) > orderBytes THEN SubSeq(h, 1, orderBytes) ELSE h)

\* hashToInt(hash, c) with its curve argument explicit
hashToIntOn(h, c) ==
    LET orderBits  == BitLen(c.N)
        orderBytes == (orderBits + 7) \div 8
        t == IF Len(h) > orderBytes THEN SubSeq(h, 1, orderBytes) ELSE h
        ret    == SetBytes(t)
        excess == Len(t) * 8 - orderBits
    IN  IF excess > 0 THEN ret \div Pow2(excess) ELSE ret

(***************************************************************************)
(* State.                                                                  *)
(*   call   the call made of the curve interface, with its result          *)
(*   pc     where the ECDSA caller stands                                  *)
(*   key    what ecdsa.GenerateKey returned                                *)
(*   hash   the digest handed to Sign                                      *)
(*   rd     the outcome of the last io.ReadFull on the random reader       *)
(*   sg     Sign's locals and named results, and the number of draws       *)
(*   wrap   what PrivateKey.Sign returned                                  *)
(*   vcall  the call made of Verify, with its result                       *)
(*   koblitzInitOncer  the sync.Once: its done flag and its mutex's holder *)
(*   secp256k1         the package variable: nil or a heap address         *)
(*   heap              the KoblitzCurve objects allocated so far, each by  *)
(*                     its embedded *CurveParams (nil or the parameters)   *)
(*   goroutine         each caller of P256k1: its position, the local      *)
(*                     params of initP256K1, the results of its last       *)
(*                     return (none before it), the calls it has made      *)
(***************************************************************************)
VARIABLES call, pc, key, hash, rd, sg, wrap, vcall,
          koblitzInitOncer, secp256k1, heap, goroutine

onceVars == << koblitzInitOncer, secp256k1, heap, goroutine >>

vars == << call, pc, key, hash, rd, sg, wrap, vcall, onceVars >>

ecdsaVars == << pc, key, hash, rd, sg, wrap, vcall >>

\* on-curve base points handed to the curve-level calls
BasePoints == { RefMulG(k) : k \in 1..MaxBase }

\* arbitrary coordinate pairs: the infinity sentinel (0,0), pairs that are
\* not on the curve, the largest reduced coordinates, and coordinates
\* outside [0, P)
GridPoints ==
    { << x, y >> : x \in 0..MaxCoord, y \in 0..MaxCoord }
        \cup { << P - 1, P - 1 >>, << P, 1 >>, << -1, 1 >> }

TestPoints == BasePoints \cup GridPoints

\* scalar byte strings: every final byte, leading bytes 0..MaxLeadByte
RECURSIVE ScalarsOfLen(_)
ScalarsOfLen(n) ==
    IF n = 0 THEN { <<>> }
    ELSE IF n = 1 THEN { << b >> : b \in Byte }
    ELSE { << h >> \o t : h \in 0..MaxLeadByte, t \in ScalarsOfLen(n - 1) }

ScalarStrings == UNION { ScalarsOfLen(n) : n \in 0..MaxScalarLen }

\* digests: every first byte, further bytes all-zero or all-one
TailBytes == { 0, 255 }

RECURSIVE DigestsOfLen(_)
DigestsOfLen(n) ==
    IF n = 0 THEN { <<>> }
    ELSE IF n = 1 THEN { << b >> : b \in Byte }
    ELSE { d \o << t >> : d \in DigestsOfLen(n - 1), t \in TailBytes }

Digests == UNION { DigestsOfLen(n) : n \in 0..MaxDigestLen }

\* the digests of the forged calls of Verify
EdgeBytes == { 0, 1, 128, 255 }

EdgeDigests == { d \in Digests : Len(d) = 0 \/ d[1] \in EdgeBytes }

\* the forged signature values
SigInts == (-1..MaxSig) \cup ((N - 1)..(N + 1))

\* the blocks of BitSize/8 + 8 bytes the reader supplies, and its errors
ReaderBlocks ==
    { [i \in 1..(BitSize \div 8 + 8) |-> IF i = BitSize \div 8 + 8 THEN l ELSE 0] :
        l \in 0..MaxRandLo }

ReaderErrs == { "EOF", "unexpected EOF" }

ReadOutcomes ==
    { ReadOk(b) : b \in ReaderBlocks } \cup { ReadErr(e) : e \in ReaderErrs }

NoCall == [op |-> "none"]

\* the callers of P256k1 and the calls each of them makes
NumGoroutines == 3

MaxCalls == 2

Goroutines == 1..NumGoroutines

\* &CurveParams{Name: "secp256k1"}: every other field has its zero value
NewParams ==
    [Name |-> "secp256k1", P |-> Nil, N |-> Nil, B |-> Nil, Gx |-> Nil,
     Gy |-> Nil, BitSize |-> 0]

NoSign == [k |-> Nil, kInv |-> Nil, r |-> Nil, s |-> Nil, err |-> "nil",
           done |-> FALSE, draws |-> 0]

Init ==
    /\ call = NoCall
    /\ pc = "idle"
    /\ key = [priv |-> Nil, err |-> "nil"]
    /\ hash = <<>>
    /\ rd = ReadErr("none")
    /\ sg = NoSign
    /\ wrap = [sig |-> Nil, err |-> "nil"]
    /\ vcall = NoCall
    /\ koblitzInitOncer = [done |-> 0, m |-> 0]
    /\ secp256k1 = Nil
    /\ heap = <<>>
    /\ goroutine = [g \in Goroutines |->
                      [pc |-> "idle", params |-> Nil, ret |-> <<>>,
                       calls |-> 0]]

(***************************************************************************)
(* The curve interface: one call, with arguments from the bounded sets.    *)
(***************************************************************************)
CallAdd ==
    /\ call.op = "none"
    /\ \E p1 \in TestPoints, p2 \in TestPoints :
         call' = [op |-> "Add", p1 |-> p1, p2 |-> p2,
                  out |-> Add(p1[1], p1[2], p2[1], p2[2])]
    /\ UNCHANGED << ecdsaVars, onceVars >>

CallDouble ==
    /\ call.op = "none"
    /\ \E p1 \in TestPoints :
         call' = [op |-> "Double", p1 |-> p1, out |-> Double(p1[1], p1[2])]
    /\ UNCHANGED << ecdsaVars, onceVars >>

CallScalarMult ==
    /\ call.op = "none"
    /\ \E p1 \in TestPoints, k \in ScalarStrings :
         call' = [op |-> "ScalarMult", p1 |-> p1, k |-> k,
                  out |-> ScalarMult(p1[1], p1[2], k)]
    /\ UNCHANGED << ecdsaVars, onceVars >>

CallScalarBaseMult ==
    /\ call.op = "none"
    /\ \E k \in ScalarStrings :
         call' = [op |-> "ScalarBaseMult", k |-> k, out |-> ScalarBaseMult(k)]
    /\ UNCHANGED << ecdsaVars, onceVars >>

NextCurve == CallAdd \/ CallDouble \/ CallScalarMult \/ CallScalarBaseMult

SpecCurve == Init /\ [][NextCurve]_vars

(***************************************************************************)
(* The ECDSA layer: a key is generated, a digest is signed (one action per *)
(* pass of Sign's loops, each pass drawing from the reader), and the       *)
(* signature is verified or wrapped by PrivateKey.Sign; or Verify is       *)
(* called on forged input.                                                 *)
(***************************************************************************)
CallGenerateKey ==
    /\ pc = "idle"
    /\ \E o \in ReadOutcomes :
         /\ rd' = o
         /\ key' = GenerateKey(o)
         /\ pc' = IF key'.err = "nil" THEN "keyed" ELSE "keyfail"
    /\ UNCHANGED << call, hash, sg, wrap, vcall, onceVars >>

BeginSign ==
    /\ pc = "keyed"
    /\ \E d \in Digests : hash' = d
    /\ sg' = NoSign
    /\ pc' = "signing"
    /\ UNCHANGED << call, key, rd, wrap, vcall, onceVars >>

SignDraw ==
    /\ pc = "signing"
    /\ sg.draws < MaxDraws
    /\ \E o \in ReadOutcomes :
         /\ rd' = o
         /\ sg' = [SignPass(sg, key.priv.D, hash, o) EXCEPT !.draws = sg.draws + 1]
         /\ pc' = IF sg'.done THEN "returned" ELSE "signing"
    /\ UNCHANGED << call, key, hash, wrap, vcall, onceVars >>

VerifySigned ==
    /\ pc = "returned"
    /\ sg.err = "nil"
    /\ LET pub == << key.priv.X, key.priv.Y >>
       IN  vcall' = [op |-> "Verify", pub |-> pub, hash |-> hash,
                     r |-> sg.r[1], s |-> sg.s[1],
                     out |-> Verify(pub, hash, sg.r[1], sg.s[1])]
    /\ pc' = "verified"
    /\ UNCHANGED << call, key, hash, rd, sg, wrap, onceVars >>

ReturnPrivateKeySign ==
    /\ pc = "returned"
    /\ wrap' = PrivateKeySign(sg.r, sg.s, sg.err)
    /\ pc' = "wrapped"
    /\ UNCHANGED << call, key, hash, rd, sg, vcall, onceVars >>

VerifyForged ==
    /\ pc = "idle"
    /\ \E pub \in TestPoints, d \in EdgeDigests, r \in SigInts, s \in SigInts :
         vcall' = [op |-> "Verify", pub |-> pub, hash |-> d, r |-> r, s |-> s,
                   out |-> Verify(pub, d, r, s)]
    /\ pc' = "verified"
    /\ UNCHANGED << call, key, hash, rd, sg, wrap, onceVars >>

Next ==
    \/ CallGenerateKey
    \/ BeginSign
    \/ SignDraw
    \/ VerifySigned
    \/ ReturnPrivateKeySign
    \/ VerifyForged

Spec == Init /\ [][Next]_vars

\* Sign called on the edge digests only: the runs in which every bit of a
\* verified digest is flipped in turn
BeginSignEdge ==
    /\ pc = "keyed"
    /\ \E d \in EdgeDigests : hash' = d
    /\ sg' = NoSign
    /\ pc' = "signing"
    /\ UNCHANGED << call, key, rd, wrap, vcall, onceVars >>

NextTamper ==
    \/ CallGenerateKey
    \/ BeginSignEdge
    \/ SignDraw
    \/ VerifySigned
    \/ VerifyForged

SpecTamper == Init /\ [][NextTamper]_vars

(***************************************************************************)
(* Key generation alone, on reader blocks whose integer runs over several  *)
(* multiples of N - 1: the last two bytes of the block take every value.   *)
(***************************************************************************)
WideBlocks ==
    { [i \in 1..(BitSize \div 8 + 8) |->
         IF i = BitSize \div 8 + 8 THEN lo
         ELSE IF i = BitSize \div 8 + 7 THEN hi ELSE 0] :
        hi \in 0..MaxRandHi, lo \in Byte }

WideOutcomes ==
    { ReadOk(b) : b \in WideBlocks } \cup { ReadErr(e) : e \in ReaderErrs }

CallGenerateKeyWide ==
    /\ pc = "idle"
    /\ \E o \in WideOutcomes :
         /\ rd' = o
         /\ key' = GenerateKey(o)
         /\ pc' = IF key'.err = "nil" THEN "keyed" ELSE "keyfail"
    /\ UNCHANGED << call, hash, sg, wrap, vcall, onceVars >>

NextKeyGen == CallGenerateKeyWide

SpecKeyGen == Init /\ [][NextKeyGen]_vars

(***************************************************************************)
(* elliptic.GenerateKey on KoblitzP349, one action per pass of its loop:   *)
(* the reader fills priv with a block, or fails after none or one byte.    *)
(***************************************************************************)
\* what io.ReadFull does: a block whose first byte has all bits clear or
\* all set, or an error after no or one byte
GenOutcomes ==
    { [err |-> "nil", b |-> << hi, lo >>] : hi \in { 0, 255 }, lo \in Byte }
        \cup { [err |-> "EOF", b |-> <<>>], [err |-> "unexpected EOF", b |-> << 1 >>] }

\* GenerateKey, lines 46-49: priv = make([]byte, byteLen), x, y, err zero
CallEllipticGenerateKey ==
    /\ call.op = "none"
    /\ call' = [op |-> "GenerateKey", pc |-> "loop", reads |-> 0,
                read |-> [err |-> "nil", b |-> <<>>],
                out |-> [priv |-> Zeros(byteLen(KoblitzP349)), x |-> Nil,
                         y |-> Nil, err |-> "nil"]]
    /\ UNCHANGED << ecdsaVars, onceVars >>

\* GenerateKey, lines 51-69: one pass of the loop; it returns on a reader
\* error and when x is no longer nil
EllipticGenerateKeyPass ==
    /\ call.op = "GenerateKey"
    /\ call.pc = "loop"
    /\ call.reads < MaxReads
    /\ \E o \in GenOutcomes :
         /\ call' = [call EXCEPT !.read = o, !.reads = @ + 1,
                        !.out = generateKeyPass(KoblitzP349, call.out.priv, o),
                        !.pc = "pass"]
    /\ UNCHANGED << ecdsaVars, onceVars >>

\* GenerateKey, lines 51 and 53-55: for x == nil, and the return on an error
EllipticGenerateKeyLoop ==
    /\ call.op = "GenerateKey"
    /\ call.pc = "pass"
    /\ call' = [call EXCEPT !.pc = IF call.out.err # "nil" \/ call.out.x # Nil
                                   THEN "returned" ELSE "loop"]
    /\ UNCHANGED << ecdsaVars, onceVars >>

NextEllipticGenerateKey ==
    CallEllipticGenerateKey \/ EllipticGenerateKeyPass \/ EllipticGenerateKeyLoop

SpecEllipticGenerateKey == Init /\ [][NextEllipticGenerateKey]_vars

(***************************************************************************)
(* Encodings: a valid key is compressed, encoded or marshalled and the     *)
(* bytes are handed back to the decoders; or a decoder is called on        *)
(* arbitrary bytes.                                                        *)
(***************************************************************************)
\* every valid public key: the points of the curve other than infinity
KeyPoints == { GTable[k] : k \in 1..(N - 1) }

TagBytes == (0..MaxTag) \cup { 254, 255 }

\* coordinate pairs of one byte each: the valid keys, their X shifted by P
\* where that fits a byte, and every X with the edge bytes for Y
BytePairs ==
    KeyPoints
        \cup { << q[1] + P, q[2] >> : q \in { k \in KeyPoints : k[1] + P <= 255 } }
        \cup { << x, y >> : x \in Byte, y \in EdgeBytes }

\* the bytes that follow the tag
Bodies ==
    { <<>> } \cup { << x >> : x \in Byte } \cup BytePairs
        \cup { << Gx, Gy >> \o Zeros(n) : n \in 1..(MaxBodyLen - 2) }

DecoderInputs == { <<>> } \cup { << t >> \o b : t \in TagBytes, b \in Bodies }

CallCompress ==
    /\ call.op = "none"
    /\ \E K \in KeyPoints :
         call' = [op |-> "Compress", key |-> K, out |-> Compress(K[1], K[2])]
    /\ UNCHANGED << ecdsaVars, onceVars >>

CallUncompressedEncode ==
    /\ call.op = "none"
    /\ \E K \in KeyPoints :
         call' = [op |-> "UncompressedEncode", key |-> K,
                  out |-> UncompressedEncode(K[1], K[2])]
    /\ UNCHANGED << ecdsaVars, onceVars >>

\* Parse on a fresh PublicKey, of what Compress or UncompressedEncode returned
CallParseEncoded ==
    /\ call.op \in { "Compress", "UncompressedEncode" }
    /\ call' = [op |-> "Parse", key |-> call.key, from |-> call.op,
                data |-> call.out, out |-> Parse(NewPub, call.out)]
    /\ UNCHANGED << ecdsaVars, onceVars >>

\* Decompress on a fresh PublicKey, of what Compress returned
CallDecompressEncoded ==
    /\ call.op = "Compress"
    /\ call' = [op |-> "Decompress", key |-> call.key, from |-> call.op,
                data |-> call.out, out |-> Decompress(NewPub, call.out)]
    /\ UNCHANGED << ecdsaVars, onceVars >>

CallParse ==
    /\ call.op = "none"
    /\ \E data \in DecoderInputs :
         call' = [op |-> "Parse", key |-> Nil, from |-> "input",
                  data |-> data, out |-> Parse(NewPub, data)]
    /\ UNCHANGED << ecdsaVars, onceVars >>

CallDecompress ==
    /\ call.op = "none"
    /\ \E data \in DecoderInputs :
         call' = [op |-> "Decompress", key |-> Nil, from |-> "input",
                  data |-> data, out |-> Decompress(NewPub, data)]
    /\ UNCHANGED << ecdsaVars, onceVars >>

CallDecompressPoint ==
    /\ call.op = "none"
    /\ \E x \in 0..(P - 1), yOdd \in BOOLEAN :
         call' = [op |-> "DecompressPoint", x |-> x, yOdd |-> yOdd,
                  out |-> DecompressPoint(x, yOdd)]
    /\ UNCHANGED << ecdsaVars, onceVars >>

CallCurveDecompressPoint ==
    /\ call.op = "none"
    /\ \E x \in 0..(P - 1), yOdd \in BOOLEAN :
         call' = [op |-> "curve.DecompressPoint", x |-> x, yOdd |-> yOdd,
                  out |-> curveDecompressPoint(x, yOdd)]
    /\ UNCHANGED << ecdsaVars, onceVars >>

CallMarshal ==
    /\ call.op = "none"
    /\ \E p \in KeyPoints \cup { g \in GridPoints : g[1] \in 0..(P - 1) /\ g[2] \in 0..(P - 1) } :
         call' = [op |-> "Marshal", p1 |-> p, out |-> Marshal(p[1], p[2])]
    /\ UNCHANGED << ecdsaVars, onceVars >>

\* Unmarshal of what Marshal returned
CallUnmarshalMarshalled ==
    /\ call.op = "Marshal"
    /\ call' = [op |-> "Unmarshal", p1 |-> call.p1, from |-> call.op,
                data |-> call.out, out |-> Unmarshal(call.out)]
    /\ UNCHANGED << ecdsaVars, onceVars >>

CallUnmarshal ==
    /\ call.op = "none"
    /\ \E data \in DecoderInputs :
         call' = [op |-> "Unmarshal", p1 |-> Nil, from |-> "input",
                  data |-> data, out |-> Unmarshal(data)]
    /\ UNCHANGED << ecdsaVars, onceVars >>

NextCodec ==
    \/ CallCompress
    \/ CallUncompressedEncode
    \/ CallParseEncoded
    \/ CallDecompressEncoded
    \/ CallParse
    \/ CallDecompress
    \/ CallDecompressPoint
    \/ CallCurveDecompressPoint
    \/ CallMarshal
    \/ CallUnmarshalMarshalled
    \/ CallUnmarshal

SpecCodec == Init /\ [][NextCodec]_vars

(***************************************************************************)
(* The encoders alone, on every pair of coordinates in [0, P), and         *)
(* ReverseCopy on destinations and sources of every small length.          *)
(***************************************************************************)
FieldElements == 0..(P - 1)

RECURSIVE CopyStrings(_)
CopyStrings(n) ==
    IF n = 0 THEN { <<>> }
    ELSE { << b >> \o t : b \in { 0, 1, 255 }, t \in CopyStrings(n - 1) }

\* destinations: fresh from make, or holding earlier bytes
CopyDestinations ==
    UNION { { Zeros(n), [i \in 1..n |-> 7] } : n \in 0..MaxCopyLen }

CallCompressAny ==
    /\ call.op = "none"
    /\ \E X \in FieldElements, Y \in FieldElements :
         call' = [op |-> "Compress", key |-> << X, Y >>, out |-> Compress(X, Y)]
    /\ UNCHANGED << ecdsaVars, onceVars >>

CallUncompressedEncodeAny ==
    /\ call.op = "none"
    /\ \E X \in FieldElements, Y \in FieldElements :
         call' = [op |-> "UncompressedEncode", key |-> << X, Y >>,
                  out |-> UncompressedEncode(X, Y)]
    /\ UNCHANGED << ecdsaVars, onceVars >>

CallReverseCopy ==
    /\ call.op = "none"
    /\ \E dst \in CopyDestinations,
          src \in UNION { CopyStrings(n) : n \in 0..MaxCopyLen } :
         call' = [op |-> "ReverseCopy", dst |-> dst, src |-> src,
                  out |-> ReverseCopy(dst, src)]
    /\ UNCHANGED << ecdsaVars, onceVars >>

NextEncode == CallCompressAny \/ CallUncompressedEncodeAny \/ CallReverseCopy

SpecEncode == Init /\ [][NextEncode]_vars

(***************************************************************************)
(* The addition alone: addJacobian on Jacobian representations             *)
(* (x z^2, y z^3, z) of valid points, and the public Add.                  *)
(***************************************************************************)
JacobianOf(p, z) == << (p[1] * z * z) % P, (p[2] * z * z * z) % P, z >>

CallAddJacobian ==
    /\ call.op = "none"
    /\ \E p1 \in KeyPoints, z1 \in 1..MaxZ, z2 \in 1..MaxZ :
         \E p2 \in { p1 } \cup BasePoints :
            call' = [op |-> "addJacobian", p1 |-> p1, p2 |-> p2,
                     j1 |-> JacobianOf(p1, z1), j2 |-> JacobianOf(p2, z2),
                     out |-> addJacobian(JacobianOf(p1, z1)[1], JacobianOf(p1, z1)[2], z1,
                                         JacobianOf(p2, z2)[1], JacobianOf(p2, z2)[2], z2)]
    /\ UNCHANGED << ecdsaVars, onceVars >>

\* Add on every pair of valid points and the infinity sentinel
CallAddKeys ==
    /\ call.op = "none"
    /\ \E p1 \in KeyPoints \cup { Inf }, p2 \in KeyPoints \cup { Inf } :
         call' = [op |-> "Add", p1 |-> p1, p2 |-> p2,
                  out |-> Add(p1[1], p1[2], p2[1], p2[2])]
    /\ UNCHANGED << ecdsaVars, onceVars >>

NextAddition == CallAddJacobian \/ CallAdd \/ CallAddKeys

SpecAddition == Init /\ [][NextAddition]_vars

(***************************************************************************)
(* The doubling alone: Double on every valid point, the infinity sentinel  *)
(* and the arbitrary coordinate pairs.                                     *)
(***************************************************************************)
CallDoubleKeys ==
    /\ call.op = "none"
    /\ \E p1 \in KeyPoints \cup { Inf } :
         call' = [op |-> "Double", p1 |-> p1, out |-> Double(p1[1], p1[2])]
    /\ UNCHANGED << ecdsaVars, onceVars >>

NextDoubling == CallDoubleKeys \/ CallDouble

SpecDoubling == Init /\ [][NextDoubling]_vars

(***************************************************************************)
(* hashToInt alone, on digests of up to MaxHashLen bytes and on both       *)
(* curves: an order of 8 bits (no excess bits, as on secp256k1) and one of *)
(* 9 bits (7 excess bits in two bytes).                                    *)
(***************************************************************************)
HashTailBytes == { 0, 1, 127, 128, 255 }

RECURSIVE HashDigestsOfLen(_)
HashDigestsOfLen(n) ==
    IF n = 0 THEN { <<>> }
    ELSE IF n = 1 THEN { << b >> : b \in Byte }
    ELSE { d \o << t >> : d \in HashDigestsOfLen(n - 1), t \in HashTailBytes }

CallHashToInt ==
    /\ call.op = "none"
    /\ \E d \in UNION { HashDigestsOfLen(n) : n \in 0..MaxHashLen },
          c \in { KoblitzP163, KoblitzP349 } :
         call' = [op |-> "hashToInt", digest |-> d, c |-> c,
                  out |-> hashToIntOn(d, c)]
    /\ UNCHANGED << ecdsaVars, onceVars >>

NextHash == CallHashToInt

SpecHash == Init /\ [][NextHash]_vars

(***************************************************************************)
(* P256k1 under concurrent callers.  Each goroutine steps through          *)
(* P256k1, sync.Once.Do and, when Do decides so, initP256K1 line by line.  *)
(* sync.Once.Do(f) is                                                      *)
(*     if o.done.Load() == 0 { o.doSlow(f) }                               *)
(*     doSlow: o.m.Lock(); defer o.m.Unlock()                              *)
(*             if o.done.Load() == 0 { defer o.done.Store(1); f() }        *)
(* and its atomics and mutex order the steps, so the interleaving of the   *)
(* steps below is every execution.                                         *)
(***************************************************************************)
\* Do's fast path with the done flag set before f has returned
onceDoneOrBusy(o) == o.done = 1 \/ o.m # 0

\* Do's fast path: o.done.Load() != 0
onceDone(o) == o.done = 1

Goto(g, label) == [goroutine EXCEPT ![g].pc = label]

\* a goroutine calls P256k1()
CallP256k1(g) ==
    /\ goroutine[g].pc = "idle"
    /\ goroutine[g].calls < MaxCalls
    /\ goroutine' = [goroutine EXCEPT ![g].pc = "Do",
                                      ![g].calls = @ + 1]
    /\ UNCHANGED << koblitzInitOncer, secp256k1, heap >>

\* koblitzInitOncer.Do(initAll): the fast path
OnceDo(g) ==
    /\ goroutine[g].pc = "Do"
    /\ goroutine' = Goto(g, IF onceDone(koblitzInitOncer) THEN "l294"
                                                          ELSE "Lock")
    /\ UNCHANGED << koblitzInitOncer, secp256k1, heap >>

\* doSlow: o.m.Lock()
OnceLock(g) ==
    /\ goroutine[g].pc = "Lock"
    /\ koblitzInitOncer.m = 0
    /\ koblitzInitOncer' = [koblitzInitOncer EXCEPT !.m = g]
    /\ goroutine' = Goto(g, "Check")
    /\ UNCHANGED << secp256k1, heap >>

\* doSlow: if o.done.Load() == 0 { ... f() }
OnceCheck(g) ==
    /\ goroutine[g].pc = "Check"
    /\ goroutine' = Goto(g, IF koblitzInitOncer.done = 0 THEN "l302"
                                                         ELSE "Unlock")
    /\ UNCHANGED << koblitzInitOncer, secp256k1, heap >>

\* initP256K1: secp256k1 = new(KoblitzCurve)
InitNew(g) ==
    /\ goroutine[g].pc = "l302"
    /\ heap' = Append(heap, Nil)
    /\ secp256k1' = Ptr(Len(heap) + 1)
    /\ goroutine' = Goto(g, "l304")
    /\ UNCHANGED koblitzInitOncer

\* initP256K1: params := &CurveParams{Name: "secp256k1"}
InitParams(g) ==
    /\ goroutine[g].pc = "l304"
    /\ goroutine' = [goroutine EXCEPT ![g].pc = "l307",
                                      ![g].params = Ptr(NewParams)]
    /\ UNCHANGED << koblitzInitOncer, secp256k1, heap >>

\* initP256K1: the six assignments to the fields of params
InitSet(g) ==
    /\ goroutine[g].pc \in { "l307", "l308", "l309", "l310", "l311", "l312" }
    /\ goroutine' =
         [goroutine EXCEPT ![g] =
            CASE @.pc = "l307" -> [@ EXCEPT !.params[1].P = Ptr(P), !.pc = "l308"]
              [] @.pc = "l308" -> [@ EXCEPT !.params[1].N = Ptr(N), !.pc = "l309"]
              [] @.pc = "l309" -> [@ EXCEPT !.params[1].B = Ptr(B), !.pc = "l310"]
              [] @.pc = "l310" -> [@ EXCEPT !.params[1].Gx = Ptr(Gx), !.pc = "l311"]
              [] @.pc = "l311" -> [@ EXCEPT !.params[1].Gy = Ptr(Gy), !.pc = "l312"]
              [] @.pc = "l312" -> [@ EXCEPT !.params[1].BitSize = BitSize,
                                            !.pc = "l314"]]
    /\ UNCHANGED << koblitzInitOncer, secp256k1, heap >>

\* initP256K1: secp256k1.CurveParams = params
InitAttach(g) ==
    /\ goroutine[g].pc = "l314"
    /\ heap' = [heap EXCEPT ![secp256k1[1]] = goroutine[g].params]
    /\ goroutine' = Goto(g, "Store")
    /\ UNCHANGED << koblitzInitOncer, secp256k1 >>

\* doSlow: the deferred o.done.Store(1), run when f has returned
OnceStore(g) ==
    /\ goroutine[g].pc = "Store"
    /\ koblitzInitOncer' = [koblitzInitOncer EXCEPT !.done = 1]
    /\ goroutine' = Goto(g, "Unlock")
    /\ UNCHANGED << secp256k1, heap >>

\* doSlow: the deferred o.m.Unlock()
OnceUnlock(g) ==
    /\ goroutine[g].pc = "Unlock"
    /\ koblitzInitOncer' = [koblitzInitOncer EXCEPT !.m = 0]
    /\ goroutine' = Goto(g, "l294")
    /\ UNCHANGED << secp256k1, heap >>

\* P256k1: return secp256k1
ReturnP256k1(g) ==
    /\ goroutine[g].pc = "l294"
    /\ goroutine' = [goroutine EXCEPT ![g].pc = "idle",
                                      ![g].ret = << secp256k1 >>]
    /\ UNCHANGED << koblitzInitOncer, secp256k1, heap >>

NextOnce ==
    /\ \E g \in Goroutines :
          \/ CallP256k1(g)
          \/ OnceDo(g)
          \/ OnceLock(g)
          \/ OnceCheck(g)
          \/ InitNew(g)
          \/ InitParams(g)
          \/ InitSet(g)
          \/ InitAttach(g)
          \/ OnceStore(g)
          \/ OnceUnlock(g)
          \/ ReturnP256k1(g)
    /\ UNCHANGED << call, ecdsaVars >>

SpecOnce == Init /\ [][NextOnce]_vars

(***************************************************************************)
(* Reference ECDSA verification over the reference group law.              *)
(***************************************************************************)
RefOnCurve(p) ==
    /\ p[1] \in 0..(P - 1)
    /\ p[2] \in 0..(P - 1)
    /\ (p[2] * p[2] - p[1] * p[1] * p[1] - B) % P = 0

RefInvN(a) == CHOOSE i \in 1..(N - 1) : (a * i) % N = 1

\* the group sum R = u1*G + u2*Q of the verification equation
RefVerifyPoint(q, h, r, s) ==
    LET e  == hashToInt(h)
        w  == RefInvN(s)
        u1 == (e * w) % N
        u2 == (r * w) % N
    IN  RefAdd(GTable[u1], RefMul(u2, q))

RefVerify(q, h, r, s) ==
    /\ r \in 1..(N - 1)
    /\ s \in 1..(N - 1)
    /\ RefVerifyPoint(q, h, r, s) # Inf
    /\ RefVerifyPoint(q, h, r, s)[1] % N = r

\* digest d with bit j (of weight 2^j) of its byte i flipped
FlipBit(d, i, j) ==
    [d EXCEPT ![i] = IF (d[i] \div Pow2(j)) % 2 = 1
                     THEN d[i] - Pow2(j) ELSE d[i] + Pow2(j)]

\* whether that bit is among the first BitLen(N) bits of the digest
InOrderBits(i, j) == 8 * (i - 1) + (7 - j) < BitLen(N)

AllZero(k) == \A i \in 1..Len(k) : k[i] = 0

InField(p) == p[1] \in 0..(P - 1) /\ p[2] \in 0..(P - 1)

\* a call of Verify on the signature Sign returned for the same key and digest
SignedVerify ==
    /\ pc = "verified"
    /\ sg.done
    /\ sg.err = "nil"
    /\ vcall.op = "Verify"

(***************************************************************************)
(* C1: Sign/verify round trip.  Whenever Sign returns (r, s) without error *)
(* for a key D, Q = D*G and a digest, Verify(Q, digest, r, s) is true.     *)
(***************************************************************************)
C1_SignVerifyRoundTrip == SignedVerify => vcall.out.ret

(***************************************************************************)
(* C2: Verify agrees with the reference verifier.  For every on-curve      *)
(* non-infinity key Q, digest and (r, s), Verify returns true exactly when *)
(* r, s are in [1, N-1], R = u1*G + u2*Q is not infinity and R.x mod N = r.*)
(***************************************************************************)
C2_VerifyMatchesReference ==
    (vcall.op = "Verify" /\ RefOnCurve(vcall.pub))
        => (vcall.out.ret = RefVerify(vcall.pub, vcall.hash, vcall.r, vcall.s))

(***************************************************************************)
(* C3: Verify returns false whenever r <= 0, s <= 0, r >= N or s >= N, for *)
(* every key and digest, and decides so before any inverse or scalar       *)
(* multiplication is computed (it has made no call).                       *)
(***************************************************************************)
C3_RangeCheckFirst ==
    (/\ vcall.op = "Verify"
     /\ (vcall.r <= 0 \/ vcall.s <= 0 \/ vcall.r >= N \/ vcall.s >= N))
        => (/\ vcall.out.ret = FALSE
            /\ vcall.out.panic = FALSE
            /\ vcall.out.calls = <<>>)

C3_Witness ==
    /\ vcall.op = "Verify"
    /\ vcall.pub = << Gx, Gy >>
    /\ vcall.r = N
    /\ vcall.s = 1
    /\ vcall.out.ret = FALSE
    /\ vcall.out.calls = <<>>

(***************************************************************************)
(* C4: Verify is total.  For every key value (X, Y), (0,0) and off-curve   *)
(* points included, every digest, the empty one and ones longer than the   *)
(* order included, and every (r, s), Verify returns a boolean: it never    *)
(* panics.                                                                 *)
(***************************************************************************)
C4_VerifyTotal ==
    vcall.op = "Verify" => (vcall.out.panic = FALSE /\ vcall.out.ret \in BOOLEAN)

C4_Witness ==
    /\ vcall.op = "Verify"
    /\ vcall.pub = << 0, 0 >>
    /\ vcall.hash = <<>>
    /\ vcall.r \in 1..(N - 1)
    /\ vcall.s \in 1..(N - 1)
    /\ vcall.out.calls = VerifyCalls
    /\ vcall.out.panic = FALSE

(***************************************************************************)
(* C5 as claimed: if Verify(pub, d, r, s) is true, then Verify is false    *)
(* for every digest obtained from d by flipping one bit, at any position.  *)
(***************************************************************************)
C5_AnyFlipRejected ==
    (vcall.op = "Verify" /\ vcall.out.ret)
        => \A i \in 1..Len(vcall.hash), j \in 0..7 :
               ~Verify(vcall.pub, FlipBit(vcall.hash, i, j), vcall.r, vcall.s).ret

(***************************************************************************)
(* C5 amended: if Verify(pub, d, r, s) is true for an on-curve key, then   *)
(* flipping one of the first BitLen(N) bits of d changes the point R that  *)
(* Verify recomputes (so Verify can stay true only when the new point      *)
(* collides with r in x mod N, as R' = -R does), and flipping a bit beyond *)
(* them leaves Verify true.                                                *)
(***************************************************************************)
C5_FlipChangesPoint ==
    (vcall.op = "Verify" /\ vcall.out.ret /\ RefOnCurve(vcall.pub))
        => \A pt \in { VerifyPoint(vcall.pub, vcall.hash, vcall.r, vcall.s) } :
           \A i \in 1..Len(vcall.hash), j \in 0..7 :
               IF InOrderBits(i, j)
               THEN VerifyPoint(vcall.pub, FlipBit(vcall.hash, i, j), vcall.r, vcall.s) # pt
               ELSE Verify(vcall.pub, FlipBit(vcall.hash, i, j), vcall.r, vcall.s).ret

C5_Witness ==
    /\ SignedVerify
    /\ vcall.out.ret
    /\ Len(vcall.hash) = 2
    /\ ~Verify(vcall.pub, FlipBit(vcall.hash, 1, 7), vcall.r, vcall.s).ret
    /\ Verify(vcall.pub, FlipBit(vcall.hash, 2, 0), vcall.r, vcall.s).ret

\* what a reference signer computes from the nonce of the last draw: the
\* nonce k, r = (k*G).x mod N and s = k^-1 * (e + r*D) mod N
LastNonce == (SetBytes(rd.b) % (N - 1)) + 1

RefSignR == GTable[LastNonce][1] % N

RefSignS == ((hashToInt(hash) + RefSignR * key.priv.D) * RefInvN(LastNonce)) % N

\* the last draw supplied a nonce that gives r # 0 and s # 0
GoodNonce == rd.err = "nil" /\ RefSignR # 0 /\ RefSignS # 0

(***************************************************************************)
(* C6: Sign returns without error only (r, s) with 1 <= r, s <= N-1.  A    *)
(* nonce giving r = 0 or s = 0 is neither returned nor reported as an      *)
(* error: Sign stays in its loop and the next step draws a fresh nonce.    *)
(* After each draw, Sign has returned exactly when the reader failed or    *)
(* the nonce drawn gives r # 0 and s # 0, and then it returns the r and s  *)
(* of that nonce.                                                          *)
(***************************************************************************)
C6_SignRetries ==
    sg.draws > 0
        => /\ sg.done <=> (rd.err # "nil" \/ GoodNonce)
           /\ (sg.done /\ sg.err = "nil")
                  => /\ sg.r = Ptr(RefSignR) /\ RefSignR \in 1..(N - 1)
                     /\ sg.s = Ptr(RefSignS) /\ RefSignS \in 1..(N - 1)
           /\ sg.err # "nil" => rd.err # "nil"
           /\ ~sg.done => (pc = "signing" /\ sg.err = "nil")

C6_Witness ==
    /\ pc = "returned"
    /\ sg.draws = 3
    /\ sg.err = "nil"
    /\ LastNonce = 1
    /\ sg.r = Ptr(Gx % N)
    /\ sg.s[1] \in 1..(N - 1)

(***************************************************************************)
(* C7: a reader failure is fatal and propagated unchanged.  If the reader  *)
(* fails on a nonce draw, a draw of a retry included, Sign returns         *)
(* (nil, nil, err) with the reader's error; GenerateKey returns (nil, err) *)
(* with it; PrivateKey.Sign returns (nil, err) with the error of Sign.     *)
(***************************************************************************)
C7_ReaderErrorPropagated ==
    /\ (sg.draws > 0 /\ rd.err # "nil")
           => (sg.done /\ sg.r = Nil /\ sg.s = Nil /\ sg.err = rd.err)
    /\ (pc \in { "keyed", "keyfail" } /\ rd.err # "nil")
           => (pc = "keyfail" /\ key.priv = Nil /\ key.err = rd.err)
    /\ (pc = "wrapped" /\ sg.err # "nil")
           => (wrap.sig = Nil /\ wrap.err = sg.err)

C7_Witness ==
    /\ pc = "wrapped"
    /\ sg.draws = 3
    /\ rd = ReadErr("unexpected EOF")
    /\ sg.r = Nil
    /\ sg.s = Nil
    /\ sg.err = "unexpected EOF"
    /\ wrap = [sig |-> Nil, err |-> "unexpected EOF"]

(***************************************************************************)
(* C8: ScalarMult(Bx, By, k) is k*B under the group law for every on-curve *)
(* base point B and every big-endian scalar byte string k, scalars with    *)
(* leading zero bytes and scalars of value >= N included.                  *)
(***************************************************************************)
C8_ScalarMultIsGroupLaw ==
    (call.op = "ScalarMult" /\ RefOnCurve(call.p1))
        => call.out = RefMul(SetBytes(call.k), call.p1)

(***************************************************************************)
(* C9: ScalarBaseMult and ScalarMult return (0,0) for every scalar byte    *)
(* string whose bytes are all zero, the empty string included, for every   *)
(* base point.                                                             *)
(***************************************************************************)
C9_ZeroScalarIsInfinity ==
    (call.op \in { "ScalarMult", "ScalarBaseMult" } /\ AllZero(call.k))
        => call.out = << 0, 0 >>

C9_Witness ==
    /\ call.op = "ScalarMult"
    /\ call.p1 = << Gx, Gy >>
    /\ call.k = << 0, 0 >>
    /\ call.out = << 0, 0 >>

(***************************************************************************)
(* C10: (0,0) is the identity of Add.  For every P with coordinates in     *)
(* [0, P), Add(P, (0,0)) = P and Add((0,0), P) = P; Add((0,0),(0,0)) is    *)
(* (0,0).                                                                  *)
(***************************************************************************)
C10_AddIdentity ==
    call.op = "Add"
        => /\ (call.p2 = Inf /\ InField(call.p1)) => call.out = call.p1
           /\ (call.p1 = Inf /\ InField(call.p2)) => call.out = call.p2

C10_Witness ==
    /\ call.op = "Add"
    /\ call.p1 = << P - 1, P - 1 >>
    /\ call.p2 = Inf
    /\ call.out = << P - 1, P - 1 >>

(***************************************************************************)
(* C11: Add tolerates equal operands.  For every on-curve point P other    *)
(* than infinity, Add(P.x, P.y, P.x, P.y) returns the point that           *)
(* Double(P.x, P.y) returns.                                               *)
(***************************************************************************)
C11_AddEqualIsDouble ==
    (call.op = "Add" /\ call.p1 = call.p2 /\ RefOnCurve(call.p1))
        => call.out = Double(call.p1[1], call.p1[2])

(***************************************************************************)
(* C12: for every on-curve point P, and for the infinity sentinel (0,0),   *)
(* Double(P) equals ScalarMult(P, [0x02]).                                 *)
(***************************************************************************)
C12_DoubleIsScalarMultTwo ==
    (call.op = "Double" /\ (RefOnCurve(call.p1) \/ call.p1 = Inf))
        => /\ call.out = ScalarMult(call.p1[1], call.p1[2], << 2 >>)
           /\ call.out = RefAdd(call.p1, call.p1)

C12_Witness ==
    /\ call.op = "Double"
    /\ call.p1 = << Gx, Gy >>
    /\ call.out = GTable[2]
    /\ call.out = ScalarMult(Gx, Gy, << 2 >>)

\* (x, y) satisfies the curve equation mod P
CurveEq(x, y) == (y * y - x * x * x - B) % P = 0

\* x^3 + B is a quadratic non-residue mod P
NonResidue(x) == \A y \in 0..(P - 1) : (y * y) % P # (x * x * x + B) % P

\* Parse was called on what Compress or UncompressedEncode returned for a key
ParsedEncoded ==
    call.op = "Parse" /\ call.from \in { "Compress", "UncompressedEncode" }

(***************************************************************************)
(* C13: public-key parse round trip.  For every valid key K (on the curve, *)
(* not infinity, coordinates in [0, P)), Parse on a fresh PublicKey of     *)
(* K.Compress() and of K.UncompressedEncode() succeeds with X = K.X and    *)
(* Y = K.Y.                                                                *)
(***************************************************************************)
C13_ParseRoundTrip ==
    ParsedEncoded
        => call.out = [X |-> Ptr(call.key[1]), Y |-> Ptr(call.key[2]),
                       err |-> "nil", panic |-> FALSE]

C13_Witness ==
    /\ ParsedEncoded
    /\ call.from = "Compress"
    /\ call.key = << Gx, P - Gy >>
    /\ call.data = << pubKeyCompressed + 1, Gx >>
    /\ call.out.Y = Ptr(P - Gy)

(***************************************************************************)
(* C14: Y recovery.  For every valid key K, DecompressPoint(K.X,           *)
(* parity(K.Y)) returns K.Y and no error, and Decompress on a fresh        *)
(* PublicKey of K.Compress() leaves (K.X, K.Y) in it.                      *)
(***************************************************************************)
C14_YRecovery ==
    /\ call.op \in { "DecompressPoint", "curve.DecompressPoint" }
           => \A K \in KeyPoints :
                  (K[1] = call.x /\ isOdd(K[2]) = call.yOdd)
                      => call.out = [y |-> Ptr(K[2]), err |-> "nil", panic |-> FALSE]
    /\ (call.op = "Decompress" /\ call.from = "Compress")
           => call.out = [X |-> Ptr(call.key[1]), Y |-> Ptr(call.key[2]),
                          err |-> "nil", panic |-> FALSE]

C14_Witness ==
    /\ call.op = "Decompress"
    /\ call.from = "Compress"
    /\ call.key = << Gx, P - Gy >>
    /\ call.out.X = Ptr(Gx)
    /\ call.out.Y = Ptr(P - Gy)

(***************************************************************************)
(* C15: Parse fails with the invalid-format-tag error for every input of   *)
(* at least PublicKeyCompressedLen bytes whose first byte is not 0x02,     *)
(* 0x03 or 0x04, whatever the other bytes are.                             *)
(***************************************************************************)
C15_BadTagRejected ==
    (/\ call.op = "Parse"
     /\ Len(call.data) >= PublicKeyCompressedLen
     /\ call.data[1] \notin { 2, 3, 4 })
        => (call.out.err = ErrTag /\ call.out.panic = FALSE)

(***************************************************************************)
(* C16: Parse validates curve membership.  Whenever Parse returns nil the  *)
(* receiver's (X, Y) satisfies IsOnCurve; whenever the point decoded from  *)
(* an uncompressed encoding is off the curve, (0,0) included, Parse        *)
(* returns the point-off-curve error; a point decoded from a compressed    *)
(* encoding is on the curve.                                               *)
(***************************************************************************)
C16_ParseValidatesCurve ==
    (call.op = "Parse" /\ call.out.panic = FALSE)
        => /\ call.out.err = "nil"
                  => /\ IsOnCurve(call.out.X[1], call.out.Y[1])
                     /\ CurveEq(call.out.X[1], call.out.Y[1])
           /\ (/\ Len(call.data) = PublicKeyUncompressedLen
               /\ call.data[1] = pubKeyUncompressed
               /\ ~CurveEq(call.data[2], call.data[3]))
                  => call.out.err = ErrOffCurve
           /\ (/\ Len(call.data) = PublicKeyCompressedLen
               /\ call.data[1] \in { pubKeyCompressed, pubKeyCompressed + 1 })
                  => call.out.err # ErrOffCurve

C16_Witness ==
    /\ call.op = "Parse"
    /\ call.data = << pubKeyUncompressed, 0, 0 >>
    /\ call.out.X = Ptr(0)
    /\ call.out.Y = Ptr(0)
    /\ call.out.err = ErrOffCurve

(***************************************************************************)
(* C17: Unmarshal returns (nil, nil) exactly when the length is not 1+2L,  *)
(* the first byte is not 0x04, X >= P, Y >= P or (X, Y) is not on the      *)
(* curve, and the decoded (X, Y) otherwise; so Unmarshal(Marshal(x, y)) is *)
(* (x, y) for every on-curve point with coordinates in [0, P) and          *)
(* (nil, nil) for an off-curve point.                                      *)
(***************************************************************************)
C17_UnmarshalRejects ==
    call.op = "Unmarshal"
        => /\ LET L == BitSize \div 8
                  X == SetBytes(SubSeq(call.data, 2, 1 + L))
                  Y == SetBytes(SubSeq(call.data, 2 + L, 1 + 2 * L))
              IN  IF \/ Len(call.data) # 1 + 2 * L
                     \/ call.data[1] # 4
                     \/ X >= P
                     \/ Y >= P
                     \/ ~CurveEq(X, Y)
                  THEN call.out = [x |-> Nil, y |-> Nil]
                  ELSE call.out = [x |-> Ptr(X), y |-> Ptr(Y)]
           /\ call.from = "Marshal"
                  => IF call.p1 \in KeyPoints
                     THEN call.out = [x |-> Ptr(call.p1[1]), y |-> Ptr(call.p1[2])]
                     ELSE call.out = [x |-> Nil, y |-> Nil]

C17_Witness ==
    /\ call.op = "Unmarshal"
    /\ call.from = "Marshal"
    /\ call.p1 = << Gx, Gy >>
    /\ call.data = << 4, Gx, Gy >>
    /\ call.out = [x |-> Ptr(Gx), y |-> Ptr(Gy)]

(***************************************************************************)
(* C18: both DecompressPoint functions return the oddness-mismatch error,  *)
(* and do not crash, for every x in [0, P) for which x^3 + B is a          *)
(* quadratic non-residue mod P, for both values of yOdd; Decompress and    *)
(* Parse return that error for such a compressed key.                      *)
(***************************************************************************)
C18_NonResidueIsError ==
    /\ (call.op \in { "DecompressPoint", "curve.DecompressPoint" } /\ NonResidue(call.x))
           => call.out = [y |-> Nil, err |-> ErrOddness, panic |-> FALSE]
    /\ (/\ call.op \in { "Parse", "Decompress" }
        /\ Len(call.data) = PublicKeyCompressedLen
        /\ call.data[1] \in { pubKeyCompressed, pubKeyCompressed + 1 }
        /\ call.data[2] < P
        /\ NonResidue(call.data[2]))
           => (call.out.err = ErrOddness /\ call.out.panic = FALSE)


(***************************************************************************)
(* C19.  Under any interleaving of concurrent callers of P256k1,           *)
(* initP256K1 runs exactly once, every call returns the same handle, no    *)
(* call returns before all of P, N, B, Gx, Gy and BitSize are set, and     *)
(* after initialization no later call changes the singleton.               *)
(***************************************************************************)
\* the parameters initP256K1 builds
FullParams ==
    [Name |-> "secp256k1", P |-> Ptr(P), N |-> Ptr(N), B |-> Ptr(B),
     Gx |-> Ptr(Gx), Gy |-> Ptr(Gy), BitSize |-> BitSize]

\* the goroutines that have returned from a call of P256k1
Returned == { g \in Goroutines : goroutine[g].ret # <<>> }

C19_InitOnce ==
    /\ Len(heap) <= 1
    /\ \A g \in Returned :
          /\ goroutine[g].ret = << Ptr(1) >>
          /\ Len(heap) = 1
          /\ heap[1] = Ptr(FullParams)
          /\ secp256k1 = Ptr(1)
    /\ koblitzInitOncer.done = 1 =>
          /\ Len(heap) = 1
          /\ heap[1] = Ptr(FullParams)
          /\ secp256k1 = Ptr(1)

\* all goroutines have returned from their last call, one of them having
\* initialized while the others waited or took the fast path
C19_Witness ==
    /\ Returned = Goroutines
    /\ \A g \in Goroutines :
          goroutine[g].calls = MaxCalls /\ goroutine[g].pc = "idle"
    /\ \E g \in Goroutines : goroutine[g].params = Ptr(FullParams)
    /\ \E g \in Goroutines : goroutine[g].params = Nil


(***************************************************************************)
(* C20.  ecdsa.GenerateKey: for every reader that supplies BitSize/8 + 8   *)
(* bytes, the private scalar is D = (the bytes as a big-endian integer     *)
(* mod (N - 1)) + 1, so 1 <= D <= N - 1, and the public key is (X, Y) =    *)
(* D*G, which satisfies IsOnCurve and is never (0, 0).                     *)
(***************************************************************************)
\* the big-endian integer of a byte string, by Horner's rule
RECURSIVE BigEndian(_)
BigEndian(b) ==
    IF b = <<>> THEN 0
    ELSE 256 * BigEndian(SubSeq(b, 1, Len(b) - 1)) + b[Len(b)]

C20_GenerateKey ==
    (pc # "idle" /\ rd.err = "nil") =>
        /\ Len(rd.b) = BitSize \div 8 + 8
        /\ key.err = "nil"
        /\ key.priv.D = (BigEndian(rd.b) % (N - 1)) + 1
        /\ key.priv.D \in 1..(N - 1)
        /\ << key.priv.X, key.priv.Y >> = RefMulG(key.priv.D)
        /\ IsOnCurve(key.priv.X, key.priv.Y)
        /\ << key.priv.X, key.priv.Y >> # << 0, 0 >>

\* a block whose integer exceeds N - 1 and is reduced to the largest scalar
C20_Witness ==
    /\ pc = "keyed"
    /\ rd.err = "nil"
    /\ BigEndian(rd.b) > 2 * N
    /\ key.priv.D = N - 1


(***************************************************************************)
(* C21.  For every key with X, Y in [0, P): Compress returns exactly       *)
(* 1 + L bytes, the first 0x02 when Y is even and 0x03 when Y is odd, then *)
(* X big-endian left-padded with zero bytes to L bytes; UncompressedEncode *)
(* returns exactly 1 + 2L bytes 0x04 || X || Y, each left-padded to L      *)
(* bytes (L = 32 on secp256k1, BitSize/8 here).  The padding is            *)
(* ReverseCopy's: a source no longer than a zeroed destination ends up     *)
(* right-aligned behind zero bytes.                                        *)
(***************************************************************************)
\* b is x big-endian, left-padded with zero bytes to n bytes
IsPadded(b, x, n) == Len(b) = n /\ BigEndian(b) = x

C21_WireFormat ==
    LET L == BitSize \div 8
    IN  /\ call.op = "Compress" =>
              /\ Len(call.out) = 1 + L
              /\ call.out[1] = (IF call.key[2] % 2 = 0 THEN 2 ELSE 3)
              /\ IsPadded(SubSeq(call.out, 2, 1 + L), call.key[1], L)
        /\ call.op = "UncompressedEncode" =>
              /\ Len(call.out) = 1 + 2 * L
              /\ call.out[1] = 4
              /\ IsPadded(SubSeq(call.out, 2, 1 + L), call.key[1], L)
              /\ IsPadded(SubSeq(call.out, 2 + L, 1 + 2 * L), call.key[2], L)
        /\ (call.op = "ReverseCopy" /\ Len(call.src) <= Len(call.dst)) =>
              call.out = SubSeq(call.dst, 1, Len(call.dst) - Len(call.src))
                            \o call.src

\* a two-byte source copied into a zeroed three-byte destination
C21_Witness ==
    /\ call.op = "ReverseCopy"
    /\ call.dst = << 0, 0, 0 >>
    /\ call.src = << 1, 255 >>
    /\ call.out = << 0, 1, 255 >>


(***************************************************************************)
(* Reference group law of a curve y^2 = x^3 + B over GF(curve.P), for the  *)
(* claims about elliptic.GenerateKey.                                      *)
(***************************************************************************)
CurveRefInv(curve, a) == CHOOSE i \in 1..(curve.P - 1) : (a * i) % curve.P = 1

CurveRefAdd(curve, p1, p2) ==
    IF p1 = Inf THEN p2
    ELSE IF p2 = Inf THEN p1
    ELSE IF p1[1] = p2[1] /\ (p1[2] + p2[2]) % curve.P = 0 THEN Inf
    ELSE LET l == IF p1 = p2
                  THEN (((3 * p1[1] * p1[1]) % curve.P)
                           * CurveRefInv(curve, (2 * p1[2]) % curve.P)) % curve.P
                  ELSE ((p2[2] - p1[2])
                           * CurveRefInv(curve, (p2[1] - p1[1]) % curve.P)) % curve.P
             x == (l * l - p1[1] - p2[1]) % curve.P
         IN  << x, (l * (p1[1] - x) - p1[2]) % curve.P >>

RECURSIVE CurveRefMulG(_, _)
CurveRefMulG(curve, k) ==
    IF k = 0 THEN Inf
    ELSE CHOOSE out \in
             { IF k % 2 = 1
               THEN CurveRefAdd(curve, CurveRefAdd(curve, h, h),
                                << curve.Gx, curve.Gy >>)
               ELSE CurveRefAdd(curve, h, h) :
                 h \in { CurveRefMulG(curve, k \div 2) } } : TRUE

\* x with the bit of weight w inverted
InvertBit(x, w) == IF (x \div w) % 2 = 1 THEN x - w ELSE x + w

\* what GenerateKey makes of a block b on a curve of 9-bit order: the low
\* bit of byte 0, and byte 1 with the bits of 0x42 = 64 + 2 inverted
MaskedBlock(b) == << b[1] % 2, InvertBit(InvertBit(b[2], 2), 64) >>

(***************************************************************************)
(* C22.  elliptic.GenerateKey: with L = ceil(N.BitLen()/8), each attempt   *)
(* reads a fresh L-byte block, ANDs byte 0 with mask[bitSize mod 8] and    *)
(* XORs byte 1 with 0x42; a block whose value is >= N is discarded and     *)
(* another block is read; the first block with value < N is returned as    *)
(* priv together with (X, Y) = priv*G; a reader error is returned          *)
(* immediately.  A reader yielding only zero bytes returns after one read  *)
(* with a non-zero scalar and a point that is not (0,0).                   *)
(***************************************************************************)
C22_GenerateKeyLoop ==
    call.op = "GenerateKey" =>
      LET c    == KoblitzP349
          out  == call.out
          m    == MaskedBlock(call.read.b)
          v    == BigEndian(m)
      IN  /\ Len(out.priv) = (BitLen(c.N) + 7) \div 8
          /\ (call.reads > 0 /\ call.read.err = "nil") =>
                /\ Len(call.read.b) = (BitLen(c.N) + 7) \div 8
                /\ out.priv = m
                /\ out.err = "nil"
                /\ v >= c.N => (out.x = Nil /\ out.y = Nil /\ call.pc # "returned")
                /\ v < c.N =>
                      /\ << out.x, out.y >> =
                            << Ptr(CurveRefMulG(c, v)[1]), Ptr(CurveRefMulG(c, v)[2]) >>
                      /\ call.pc # "loop"
          /\ (call.reads > 0 /\ call.read.err # "nil") =>
                /\ out.err = call.read.err
                /\ out.x = Nil /\ out.y = Nil
                /\ call.pc # "loop"
          /\ (call.reads = 1 /\ call.read.err = "nil"
                /\ call.read.b = << 0, 0 >>) =>
                /\ call.pc # "loop"
                /\ BigEndian(out.priv) # 0
                /\ << out.x, out.y >> # << Ptr(0), Ptr(0) >>

\* a first block was discarded, the second one, whose byte 0 has bits for
\* the mask to clear, was returned with its point
C22_Witness ==
    /\ call.op = "GenerateKey"
    /\ call.pc = "returned"
    /\ call.reads = 2
    /\ call.read.err = "nil"
    /\ call.read.b[1] = 255
    /\ call.out.x # Nil

(***************************************************************************)
(* C27.  elliptic.GenerateKey never returns a degenerate key: for every    *)
(* byte stream the reader can supply, if GenerateKey returns without error *)
(* then the returned scalar is in [1, N-1] and the returned point is not   *)
(* the infinity sentinel (0,0).                                            *)
(***************************************************************************)
C27_NoDegenerateKey ==
    (call.op = "GenerateKey" /\ call.pc = "returned" /\ call.out.err = "nil") =>
        /\ BigEndian(call.out.priv) \in 1..(KoblitzP349.N - 1)
        /\ << call.out.x, call.out.y >> # << Ptr(0), Ptr(0) >>


(***************************************************************************)
(* C23.  During ScalarMult(Bx, By, k), for every base point and every      *)
(* scalar byte string k of any length, the accumulator passed to           *)
(* addJacobian in the conditional add step never represents the same       *)
(* affine point as the base (Bx, By).                                      *)
(***************************************************************************)
\* the Jacobian triple d is a finite point whose affine form is p
Represents(d, p) == d[3] % P # 0 /\ affineOf(d) = p

C23_NeverAddsEqual ==
    (call.op = "ScalarMult" /\ RefOnCurve(call.p1) /\ call.p1 # Inf) =>
        \A d \in scalarMultOperands(call.p1[1], call.p1[2], call.k) :
            ~Represents(d, call.p1)


Bits(x) == CHOOSE n \in 0..31 : x < Pow2(n) /\ (n = 0 \/ x >= Pow2(n - 1))

Min(a, b) == IF a < b THEN a ELSE b

C25_HashToInt ==
    call.op = "hashToInt" =>
      LET nb    == Bits(call.c.N)
          cnt   == Min(Len(call.digest), (nb + 7) \div 8)
          v     == BigEndian(SubSeq(call.digest, 1, cnt))
          shift == 8 * cnt - nb
      IN  /\ call.out = (IF shift > 0 THEN v \div Pow2(shift) ELSE v)
          /\ Bits(call.out) <= nb
          /\ cnt = (nb + 7) \div 8 =>
                \A t \in { <<>> } \cup { << b >> : b \in HashTailBytes }
                            \cup { << a, b >> : a \in HashTailBytes,
                                                b \in HashTailBytes } :
                    hashToIntOn(SubSeq(call.digest, 1, cnt) \o t, call.c) = call.out

\* a three-byte digest on the 9-bit order: truncated to two bytes, shifted
\* by seven bits, and left above N
C25_Witness ==
    /\ call.op = "hashToInt"
    /\ call.c.N = 313
    /\ call.digest = << 255, 255, 1 >>
    /\ call.out = 511


(***************************************************************************)
(* C26.  Verify returns false whenever the public key is not a valid curve *)
(* point: for pub = (0,0) (the infinity sentinel) or any (X, Y) failing    *)
(* IsOnCurve, no digest and no (r, s) in [1, N-1] makes Verify return      *)
(* true.                                                                   *)
(***************************************************************************)
C26_InvalidKeyRejected ==
    (/\ vcall.op = "Verify"
     /\ vcall.pub = Inf \/ ~IsOnCurve(vcall.pub[1], vcall.pub[2])
     /\ vcall.r \in 1..(N - 1)
     /\ vcall.s \in 1..(N - 1))
        => (~vcall.out.panic /\ vcall.out.ret = FALSE)


(***************************************************************************)
(* C28.  Parsed keys are canonical: whenever Parse, given compressed or    *)
(* uncompressed data, returns nil, the receiver's X and Y both lie in      *)
(* [0, P); an encoding whose X or Y field is >= P (for example a           *)
(* coordinate plus P, or Y = P) is rejected.                               *)
(***************************************************************************)
C28_ParsedKeyCanonical ==
    (call.op = "Parse" /\ call.out.panic = FALSE /\ call.out.err = "nil")
        => /\ call.out.X[1] \in 0..(P - 1)
           /\ call.out.Y[1] \in 0..(P - 1)


(***************************************************************************)
(* C29.  Add implements the group law on distinct points: for all on-curve *)
(* points P1 != P2 (either may be the infinity sentinel), Add(P1, P2)      *)
(* equals the reference chord-rule sum with coordinates reduced to [0, P), *)
(* returns (0,0) exactly when P2 = -P1, and Add(P1, P2) = Add(P2, P1).     *)
(***************************************************************************)
\* a point of the group: on the curve, or the infinity sentinel
GroupPoint(p) == p = Inf \/ RefOnCurve(p)

\* the inverse of a finite point
Negated(p) == << p[1], (P - p[2]) % P >>

C29_AddIsGroupLaw ==
    (/\ call.op = "Add"
     /\ GroupPoint(call.p1)
     /\ GroupPoint(call.p2)
     /\ call.p1 # call.p2)
        => /\ call.out = RefAdd(call.p1, call.p2)
           /\ InField(call.out)
           /\ call.out = Inf <=>
                 (call.p1 # Inf /\ call.p2 = Negated(call.p1))
           /\ call.out = Add(call.p2[1], call.p2[2], call.p1[1], call.p1[2])

\* a point and its inverse
C29_Witness ==
    /\ call.op = "Add"
    /\ call.p1 = << Gx, Gy >>
    /\ call.p2 = << Gx, P - Gy >>
    /\ call.out = Inf


(***************************************************************************)
(* C30.  Double implements group doubling: for every on-curve point P,     *)
(* Double(P) equals the reference tangent-rule result 2P with coordinates  *)
(* in [0, P) and lying on the curve; Double((0,0)) = (0,0), and Double of  *)
(* a point with y = 0 is (0,0).                                            *)
(***************************************************************************)
C30_DoubleIsGroupLaw ==
    call.op = "Double"
        => /\ RefOnCurve(call.p1) =>
                /\ call.out = RefAdd(call.p1, call.p1)
                /\ InField(call.out)
                /\ RefOnCurve(call.out)
           /\ call.p1 = Inf => call.out = Inf
           /\ call.p1[2] = 0 => call.out = Inf

\* the largest multiple of the generator, whose double is the inverse of G
C30_Witness ==
    /\ call.op = "Double"
    /\ call.p1 = GTable[N - 1]
    /\ call.out = GTable[N - 2]

=============================================================================
